---- MODULE Spec2Model ----
(***************************************************************************)
(* A model of vtkDataSet (Common/DataModel/vtkDataSet.cxx): the modified-  *)
(* time gated caches of the bounding box and of the scalar range, the      *)
(* fork/reduce functors that compute them, and the structured-extent ghost *)
(* classifier.  Sequences are 1-based: the C arrays Bounds[0..5],          *)
(* extent[0..5] are the sequences Bounds[1..6], extent[1..6].              *)
(***************************************************************************)
EXTENDS Integers, Sequences, FiniteSets, TLC

\* ------------------------------------------------------------------ bounds
\* The global modification counter stops here (guards of the actions).
MaxTime == 13
\* A point set holds at most this many points.
MaxPts == 2
\* The array store holds at most this many arrays.
MaxArrays == 3
\* vtkSMPTools::For cuts a range into at most this many chunks.
MaxChunks == 3

\* --------------------------------------------------------------- constants
\* Sentinels of the thread-local boxes: beyond every coordinate of the model.
VTK_DOUBLE_MAX == 9

VTK_DOUBLE_MIN == -9

\* vtkDataSetAttributes ghost bits.
DUPLICATEPOINT == 1

HIDDENPOINT == 2

DUPLICATECELL == 1

REFINEDCELL == 8

VTK_PIECES_EXTENT == 0

VTK_3D_EXTENT == 1

\* ------------------------------------------------------------------ inputs
\* The datasets: 1 is the dataset under test, 2 the source of copies.
DS == {1, 2}

\* Coordinates a point may be given.
Coords == {<<-1, -1, -1>>, <<1, 1, 1>>, <<-1, 1, 0>>}

\* Scalar arrays a caller may install as active scalars.
ScalarChoices == {<<0, 10>>, <<5, 20>>}

\* True extents of the structured datasets, and canonical extents handed in.
TrueExtents == {<<0, 4, 0, 4, 0, 0>>, <<0, 1, 0, 0, 0, 0>>, <<0, 1, 0, 1, 0, 1>>}

ZeroExtents == {<<1, 3, 1, 3, 0, 0>>, <<0, 4, 0, 4, 0, 0>>, <<0, 0, 0, 0, 0, 0>>,
                <<1, 1, 0, 0, 0, 0>>, <<0, 1, 0, 1, 0, 0>>, <<0, 1, 0, 0, 0, 0>>}

VARIABLES
  GlobalTime,   \* vtkTimeStamp's global counter
  ds,           \* the datasets' members
  heap,         \* the arrays, by handle (0 is nullptr)
  lastOp,       \* the operation that ran last, with its arguments
  ret,          \* what it returned
  calls,        \* the accessor calls it made
  hist,         \* per dataset, what the queries returned since its clocks last advanced
  pc,           \* position of the thread inside ComputeBounds (interleaved runs)
  ub            \* an access outside an array has happened

vars == <<GlobalTime, ds, heap, lastOp, ret, calls, hist, pc, ub>>

\* ----------------------------------------------------------------- helpers
Min2(a, b) == IF a < b THEN a ELSE b

Max2(a, b) == IF a > b THEN a ELSE b

RECURSIVE BitAnd(_, _)
BitAnd(a, b) ==
  IF a = 0 \/ b = 0 THEN 0
  ELSE (a % 2) * (b % 2) + 2 * BitAnd(a \div 2, b \div 2)

\* value |= bit
BitOr(a, b) == a + b - BitAnd(a, b)

\* vtkMath::UninitializeBounds
UninitializeBounds == <<1, -1, 1, -1, 1, -1>>

\* -------------------------------------------------------------- the clocks
\* GetMTime without the object's own modification time.
GetMTimeAttributesOnly(r) == IF r.CDMTime > r.PDMTime THEN r.CDMTime ELSE r.PDMTime

\* vtkDataSet::GetMTime: the newest of the object's, the point data's and the
\* cell data's modification time.
GetMTime(r) ==
  LET result == r.MTime
      r1 == IF r.PDMTime > result THEN r.PDMTime ELSE result
  IN IF r.CDMTime > r1 THEN r.CDMTime ELSE r1

\* --------------------------------------------------- ComputeBoundsFunctor
FunctorInitialize ==
  <<VTK_DOUBLE_MAX, VTK_DOUBLE_MIN, VTK_DOUBLE_MAX, VTK_DOUBLE_MIN,
    VTK_DOUBLE_MAX, VTK_DOUBLE_MIN>>

\* The loop body with "else if" for the second test: a coordinate that lowers the
\* minimum never raises the maximum.
WidenElseIf(bounds, x) ==
  [n \in 1..6 |->
    IF n % 2 = 1
    THEN (IF x[(n + 1) \div 2] < bounds[n] THEN x[(n + 1) \div 2] ELSE bounds[n])
    ELSE (IF ~(x[n \div 2] < bounds[n - 1]) /\ x[n \div 2] > bounds[n]
          THEN x[n \div 2] ELSE bounds[n])]

\* The body of the loop over j: widen bounds by the point x.
Widen(bounds, x) ==
  [n \in 1..6 |->
    IF n % 2 = 1
    THEN (IF x[(n + 1) \div 2] < bounds[n] THEN x[(n + 1) \div 2] ELSE bounds[n])
    ELSE (IF x[n \div 2] > bounds[n] THEN x[n \div 2] ELSE bounds[n])]

\* operator()(begin, end) on the thread-local box: points begin..end-1
\* (GetPoint(pointId) is pts[pointId + 1]).
RECURSIVE FunctorCall(_, _, _, _)
FunctorCall(pts, bounds, begin, end) ==
  IF begin >= end THEN bounds
  ELSE FunctorCall(pts, Widen(bounds, pts[begin + 1]), begin + 1, end)

\* Reduce() that copies each thread-local box over the result.
RECURSIVE FunctorReduceFromLast(_, _, _)
FunctorReduceFromLast(tl, n, acc) ==
  IF n > Len(tl) THEN acc ELSE FunctorReduceFromLast(tl, n + 1, tl[n])

\* Reduce(): merge the thread-local boxes tl[1..Len(tl)].
RECURSIVE FunctorReduceFrom(_, _, _)
FunctorReduceFrom(tl, n, acc) ==
  IF n > Len(tl) THEN acc
  ELSE FunctorReduceFrom(tl, n + 1,
         [m \in 1..6 |->
           IF m % 2 = 1
           THEN (IF tl[n][m] < acc[m] THEN tl[n][m] ELSE acc[m])
           ELSE (IF tl[n][m] > acc[m] THEN tl[n][m] ELSE acc[m])])

FunctorReduce(tl) == FunctorReduceFrom(tl, 1, FunctorInitialize)

\* vtkSMPTools::For(0, N, functor): [0, N) is cut into the chunks [0, cut) and
\* [cut, N); an empty chunk is not run. With sameThread one worker runs both on
\* one thread-local box, else each chunk has its worker and its box. Only the
\* workers that ran a chunk have a box.
SMPForBounds(pts, cut, sameThread) ==
  LET N == Len(pts)
      one == FunctorCall(pts, FunctorCall(pts, FunctorInitialize, 0, cut), cut, N)
      tl == IF sameThread \/ cut = 0 \/ cut = N
            THEN <<one>>
            ELSE <<FunctorCall(pts, FunctorInitialize, cut, N),
                   FunctorCall(pts, FunctorInitialize, 0, cut)>>
  IN FunctorReduce(tl)

\* How often GetPoint was called with each point id 0..N-1 during that run (the
\* entry n counts the calls for id n - 1): once by the worker whose chunk holds it.
SMPForCalls(pts, cut, sameThread) ==
  [n \in 1..Len(pts) |->
    Cardinality({c \in {<<0, cut>>, <<cut, Len(pts)>>} : c[1] <= n - 1 /\ n - 1 < c[2]})]

\* ------------------------------------------------- the concrete dataset
\* vtkStructuredData::GetNumberOfPoints(extent)
StructuredNumberOfPoints(ext) ==
  IF ext[2] < ext[1] \/ ext[4] < ext[3] \/ ext[6] < ext[5] THEN 0
  ELSE (ext[2] - ext[1] + 1) * (ext[4] - ext[3] + 1) * (ext[6] - ext[5] + 1)

\* vtkStructuredData::GetNumberOfCells(extent): a flat axis counts as one cell.
StructuredNumberOfCells(ext) ==
  IF ext[2] < ext[1] \/ ext[4] < ext[3] \/ ext[6] < ext[5] THEN 0
  ELSE Max2(ext[2] - ext[1], 1) * Max2(ext[4] - ext[3], 1) * Max2(ext[6] - ext[5], 1)

\* The points of a structured dataset, i fastest: point (i, j, k) lies at (i, j, k).
StructuredPoints(ext) ==
  LET ni == ext[2] - ext[1] + 1
      nj == ext[4] - ext[3] + 1
  IN [n \in 1..StructuredNumberOfPoints(ext) |->
       <<ext[1] + ((n - 1) % ni),
         ext[3] + (((n - 1) \div ni) % nj),
         ext[5] + ((n - 1) \div (ni * nj))>>]

\* GetPoint over all ids: the subclass's coordinates.
PointsOf(r) ==
  IF r.ExtentType = VTK_3D_EXTENT THEN StructuredPoints(r.Extent) ELSE r.Points

GetNumberOfPoints(r) == Len(PointsOf(r))

GetNumberOfCells(r) ==
  IF r.ExtentType = VTK_3D_EXTENT THEN StructuredNumberOfCells(r.Extent)
  ELSE Max2(Len(r.Points) - 1, 0)

\* ------------------------------------------------------- the array store
FreeCell == [live |-> FALSE, data |-> <<>>]

ArrIds == 1..MaxArrays

\* The handles the attribute sets of r hold.
Held(r) == {r.PDScalars, r.PDGhost, r.CDScalars, r.CDGhost} \ {0}

\* An array nobody holds is deleted (reference counting).
Collect(newds, h) ==
  [a \in ArrIds |->
    IF \E d \in DS : a \in Held(newds[d]) THEN h[a] ELSE FreeCell]

HasFree(h) == \E a \in ArrIds : ~h[a].live

\* vtkUnsignedCharArray::New() and the like.
NewHandle(h) == CHOOSE a \in ArrIds : ~h[a].live /\ \A b \in ArrIds : b < a => h[b].live

\* vtkTimeStamp::Modified(): the next value of the global counter.
TimeStampModified(t) == t + 1

\* ----------------------------------------------------------- construction
\* vtkDataSet::vtkDataSet(), built when the global counter stands at t.
NewDataSet(t) ==
  [MTime |-> t + 1, PDMTime |-> t + 2, CDMTime |-> t + 3,
   ComputeTime |-> 0, ScalarRangeComputeTime |-> 0,
   Bounds |-> UninitializeBounds, ScalarRange |-> <<0, 1>>,
   Points |-> <<>>, ExtentType |-> VTK_PIECES_EXTENT, Extent |-> <<0, -1, 0, -1, 0, -1>>,
   PDScalars |-> 0, PDGhost |-> 0, PDGhostsToSkip |-> HIDDENPOINT,
   CDScalars |-> 0, CDGhost |-> 0, CDGhostsToSkip |-> REFINEDCELL,
   PointGhostArray |-> 0, PointGhostArrayCached |-> FALSE,
   CellGhostArray |-> 0, CellGhostArrayCached |-> FALSE]

\* Nothing queried yet; nBounds and nRange count the recomputations so far,
\* generated tells whether GenerateGhostArray has been called.
NoHist == [bounds |-> <<>>, range |-> <<>>, nBounds |-> 0, nRange |-> 0, generated |-> FALSE]

Op(name, d, arg) == [op |-> name, d |-> d, arg |-> arg]

InitCommon ==
  /\ GlobalTime = 9
  /\ heap = [a \in ArrIds |-> FreeCell]
  /\ lastOp = Op("New", 0, <<>>)
  /\ ret = <<>>
  /\ calls = [GetPoint |-> <<>>, GetRange |-> 0, recomputed |-> FALSE]
  /\ hist = [d \in DS |-> NoHist]
  /\ pc = "idle"
  /\ ub = FALSE

\* ------------------------------------------------ what every action ends with
ClocksOf(r) == <<r.MTime, r.PDMTime, r.CDMTime>>

HistAfter(newds, op, val, c) ==
  [e \in DS |->
    LET base == IF ClocksOf(newds[e]) # ClocksOf(ds[e])
                THEN [hist[e] EXCEPT !.bounds = <<>>, !.range = <<>>]
                ELSE hist[e]
        cnt == [base EXCEPT
                 !.nBounds = @ + (IF e = op.d /\ newds[e].ComputeTime # ds[e].ComputeTime
                                     /\ op.op \in {"GetBounds", "GetCenter", "GetLength2"}
                                  THEN 1 ELSE 0),
                 !.nRange = @ + (IF e = op.d /\ op.op = "GetScalarRange"
                                    /\ newds[e].ScalarRangeComputeTime
                                         # ds[e].ScalarRangeComputeTime
                                 THEN 1 ELSE 0),
                 !.generated = @ \/ (e = op.d /\ op.op = "GenerateGhostArray")]
    IN IF e = op.d /\ op.op = "GetBounds" THEN [cnt EXCEPT !.bounds = val]
       ELSE IF e = op.d /\ op.op = "GetScalarRange" THEN [cnt EXCEPT !.range = val]
       ELSE cnt]

\* The operation op ends: the members, the arrays and the global counter are as
\* given, r is returned, c are the accessor calls made, u tells whether an access
\* outside an array has happened by now.
Commit(newds, newheap, t, op, r, c, u) ==
  /\ t <= MaxTime
  /\ ds' = newds
  /\ heap' = Collect(newds, newheap)
  /\ GlobalTime' = t
  /\ lastOp' = op
  /\ ret' = r
  /\ calls' = c
  /\ hist' = HistAfter(newds, op, r, c)
  /\ ub' = u
  /\ UNCHANGED pc

Finish(newds, newheap, t, op, r, c) == Commit(newds, newheap, t, op, r, c, ub)

NoCalls == [GetPoint |-> <<>>, GetRange |-> 0, recomputed |-> FALSE]

\* ---------------------------------------------------------- ComputeBounds
\* The test of line 174.
BoundsStale(r) == GetMTime(r) > r.ComputeTime

\* The reduction is run for an empty dataset too.
RecomputedBoundsAlwaysReduce(r, cut, sameThread) == SMPForBounds(PointsOf(r), cut, sameThread)

\* The recomputed box (lines 176-185).
RecomputedBounds(r, cut, sameThread) ==
  IF GetNumberOfPoints(r) # 0
  THEN SMPForBounds(PointsOf(r), cut, sameThread)
  ELSE UninitializeBounds

\* The stamp is not written.
BoundsStampForgotten(t, current) == 0

\* The stamp written at line 186, the global counter standing at t and the
\* aggregate clock read at line 174 being current.
BoundsStamp(t, current) == TimeStampModified(t)

\* vtkDataSet::ComputeBounds on the members r: the members after it, the global
\* counter after it, the GetPoint calls it made.
ComputeBounds(r, t, cut, sameThread) ==
  IF BoundsStale(r)
  THEN [r |-> [r EXCEPT !.Bounds = RecomputedBounds(r, cut, sameThread),
                        !.ComputeTime = BoundsStamp(t, GetMTime(r))],
        t |-> TimeStampModified(t),
        GetPoint |-> IF GetNumberOfPoints(r) # 0
                     THEN SMPForCalls(PointsOf(r), cut, sameThread) ELSE <<>>,
        recomputed |-> TRUE]
  ELSE [r |-> r, t |-> t, GetPoint |-> <<>>, recomputed |-> FALSE]

\* vtkDataSet::GetBounds
GetBounds(d) ==
  \E cut \in 0..GetNumberOfPoints(ds[d]), sameThread \in BOOLEAN :
    LET c == ComputeBounds(ds[d], GlobalTime, cut, sameThread)
    IN Finish([ds EXCEPT ![d] = c.r], heap, c.t, Op("GetBounds", d, <<>>),
              c.r.Bounds, [GetPoint |-> c.GetPoint, GetRange |-> 0, recomputed |-> c.recomputed])

\* ------------------------------------------------ the concrete point set
\* The subclass changes a coordinate and calls Modified().
SetPoint(d) ==
  \E i \in 1..Len(ds[d].Points), x \in Coords :
    /\ ds[d].ExtentType = VTK_PIECES_EXTENT
    /\ ds[d].Points[i] # x
    /\ Finish([ds EXCEPT ![d].Points[i] = x, ![d].MTime = TimeStampModified(GlobalTime)],
              heap, TimeStampModified(GlobalTime), Op("SetPoint", d, <<i - 1>>), <<>>, NoCalls)

InsertNextPoint(d) ==
  \E x \in Coords :
    /\ ds[d].ExtentType = VTK_PIECES_EXTENT
    /\ Len(ds[d].Points) < MaxPts
    /\ Finish([ds EXCEPT ![d].Points = Append(@, x),
                         ![d].MTime = TimeStampModified(GlobalTime)],
              heap, TimeStampModified(GlobalTime), Op("InsertNextPoint", d, <<>>), <<>>, NoCalls)

\* The point set is emptied.
ResetPoints(d) ==
  /\ ds[d].ExtentType = VTK_PIECES_EXTENT
  /\ Len(ds[d].Points) > 0
  /\ Finish([ds EXCEPT ![d].Points = <<>>, ![d].MTime = TimeStampModified(GlobalTime)],
            heap, TimeStampModified(GlobalTime), Op("ResetPoints", d, <<>>), <<>>, NoCalls)

\* vtkDataSet::GetCenter: the midpoints, as halves (the sum min + max per axis).
GetCenter(d) ==
  \E cut \in 0..GetNumberOfPoints(ds[d]), sameThread \in BOOLEAN :
    LET c == ComputeBounds(ds[d], GlobalTime, cut, sameThread)
    IN Finish([ds EXCEPT ![d] = c.r], heap, c.t, Op("GetCenter", d, <<>>),
              [i \in 1..3 |-> c.r.Bounds[2 * i] + c.r.Bounds[2 * i - 1]],
              [GetPoint |-> c.GetPoint, GetRange |-> 0, recomputed |-> c.recomputed])

\* The bounds are computed and squared for an empty dataset too.
GetLength2OfAnyBounds(d) ==
  \E cut \in 0..GetNumberOfPoints(ds[d]), sameThread \in BOOLEAN :
    LET c == ComputeBounds(ds[d], GlobalTime, cut, sameThread)
        diff(i) == c.r.Bounds[2 * i] - c.r.Bounds[2 * i - 1]
    IN Finish([ds EXCEPT ![d] = c.r], heap, c.t, Op("GetLength2", d, <<>>),
              <<diff(1) * diff(1) + diff(2) * diff(2) + diff(3) * diff(3)>>,
              [GetPoint |-> c.GetPoint, GetRange |-> 0, recomputed |-> c.recomputed])

\* vtkDataSet::GetLength2
GetLength2(d) ==
  \E cut \in 0..GetNumberOfPoints(ds[d]), sameThread \in BOOLEAN :
    IF GetNumberOfPoints(ds[d]) = 0
    THEN Finish(ds, heap, GlobalTime, Op("GetLength2", d, <<>>), <<0>>, NoCalls)
    ELSE LET c == ComputeBounds(ds[d], GlobalTime, cut, sameThread)
             diff(i) == c.r.Bounds[2 * i] - c.r.Bounds[2 * i - 1]
         IN Finish([ds EXCEPT ![d] = c.r], heap, c.t, Op("GetLength2", d, <<>>),
                   <<diff(1) * diff(1) + diff(2) * diff(2) + diff(3) * diff(3)>>,
                   [GetPoint |-> c.GetPoint, GetRange |-> 0, recomputed |-> c.recomputed])

\* ------------------------------------------------------ the attribute sets
\* vtkDataSet::UpdatePointGhostArrayCache
UpdatePointGhostArrayCache(r) ==
  [r EXCEPT !.PointGhostArray = r.PDGhost, !.PointGhostArrayCached = (r.PDGhost # 0)]

\* vtkDataSet::UpdateCellGhostArrayCache
UpdateCellGhostArrayCache(r) ==
  [r EXCEPT !.CellGhostArray = r.CDGhost, !.CellGhostArrayCached = (r.CDGhost # 0)]

\* The observer refreshes the handle of the attribute set that did not change.
OnDataModifiedSwapped(r, source) ==
  IF source = "POINT" THEN UpdateCellGhostArrayCache(r) ELSE UpdatePointGhostArrayCache(r)

\* vtkDataSet::OnDataModified
OnDataModified(r, source) ==
  IF source = "POINT" THEN UpdatePointGhostArrayCache(r) ELSE UpdateCellGhostArrayCache(r)

\* Modified() of the point data or of the cell data, the global counter standing
\* at t: its clock advances and the observer of the dataset runs.
AttributesModified(r, kind, t) ==
  IF kind = "POINT"
  THEN OnDataModified([r EXCEPT !.PDMTime = TimeStampModified(t)], "POINT")
  ELSE OnDataModified([r EXCEPT !.CDMTime = TimeStampModified(t)], "CELL")

Kinds == {"POINT", "CELL"}

ScalarsOf(r, kind) == IF kind = "POINT" THEN r.PDScalars ELSE r.CDScalars

GhostOf(r, kind) == IF kind = "POINT" THEN r.PDGhost ELSE r.CDGhost

WithScalars(r, kind, a) ==
  IF kind = "POINT" THEN [r EXCEPT !.PDScalars = a] ELSE [r EXCEPT !.CDScalars = a]

WithGhost(r, kind, a) ==
  IF kind = "POINT" THEN [r EXCEPT !.PDGhost = a] ELSE [r EXCEPT !.CDGhost = a]

\* A scalar array for r: one tuple for each point or cell of a structured dataset,
\* the values of vals in turn; vals itself otherwise.
ScalarArray(r, kind, vals) ==
  IF r.ExtentType = VTK_3D_EXTENT
  THEN [i \in 1..(IF kind = "POINT" THEN StructuredNumberOfPoints(r.Extent)
                  ELSE StructuredNumberOfCells(r.Extent)) |-> vals[((i - 1) % Len(vals)) + 1]]
  ELSE vals

\* SetScalars(array) on the point or cell data, with a new array.
SetScalars(d) ==
  \E kind \in Kinds, vals \in ScalarChoices :
    /\ HasFree(heap)
    /\ LET a == NewHandle(heap)
       IN Finish([ds EXCEPT ![d] = AttributesModified(WithScalars(ds[d], kind, a), kind, GlobalTime)],
                 [heap EXCEPT ![a] = [live |-> TRUE, data |-> ScalarArray(ds[d], kind, vals)]],
                 TimeStampModified(GlobalTime), Op("SetScalars", d, <<kind>>), <<>>, NoCalls)

\* The active scalars are removed from the point or cell data.
RemoveScalars(d) ==
  \E kind \in Kinds :
    /\ ScalarsOf(ds[d], kind) # 0
    /\ Finish([ds EXCEPT ![d] = AttributesModified(WithScalars(ds[d], kind, 0), kind, GlobalTime)],
              heap, TimeStampModified(GlobalTime), Op("RemoveScalars", d, <<kind>>), <<>>, NoCalls)

\* SetGhostsToSkip(mask) on the point or cell data.
SetGhostsToSkip(d) ==
  \E kind \in Kinds, dup \in BOOLEAN :
    LET mask == IF kind = "POINT"
                THEN HIDDENPOINT + (IF dup THEN DUPLICATEPOINT ELSE 0)
                ELSE REFINEDCELL + (IF dup THEN DUPLICATECELL ELSE 0)
        r == IF kind = "POINT" THEN [ds[d] EXCEPT !.PDGhostsToSkip = mask]
             ELSE [ds[d] EXCEPT !.CDGhostsToSkip = mask]
    IN /\ r # ds[d]
       /\ Finish([ds EXCEPT ![d] = AttributesModified(r, kind, GlobalTime)],
                 heap, TimeStampModified(GlobalTime), Op("SetGhostsToSkip", d, <<kind>>),
                 <<>>, NoCalls)

\* ------------------------------------------------------ ComputeScalarRange
\* The elements of arr the range query looks at: those whose ghost entry does not
\* meet ghostsToSkip (an element without a ghost entry is looked at).
Kept(arr, ghosts, ghostsToSkip) ==
  {i \in 1..Len(arr) : ~(i <= Len(ghosts) /\ BitAnd(ghosts[i], ghostsToSkip) # 0)}

\* vtkDataArray::GetRange(range, 0, ghosts, ghostsToSkip)
GetRange(arr, ghosts, ghostsToSkip) ==
  LET kept == Kept(arr, ghosts, ghostsToSkip)
  IN IF kept = {} THEN <<VTK_DOUBLE_MAX, VTK_DOUBLE_MIN>>
     ELSE <<CHOOSE v \in {arr[i] : i \in kept} : \A i \in kept : v <= arr[i],
            CHOOSE v \in {arr[i] : i \in kept} : \A i \in kept : v >= arr[i]>>

\* The test of line 196.
ScalarRangeStale(r) == GetMTime(r) > r.ScalarRangeComputeTime

\* The range of the cell scalars alone, the point range dropped.
CombineRangesCellOnly(r1, r2) == r2

\* Lines 211-216: both arrays exist.
CombineRanges(r1, r2) ==
  <<IF r1[1] < r2[1] THEN r1[1] ELSE r2[1], IF r1[2] > r2[2] THEN r1[2] ELSE r2[2]>>

\* Lines 198-230: the range of the active scalars of r, the arrays being h.
RecomputedScalarRange(r, h) ==
  LET ptScalars == r.PDScalars
      cellScalars == r.CDScalars
      ptGhosts == IF r.PDGhost # 0 THEN h[r.PDGhost].data ELSE <<>>
      cellGhosts == IF r.CDGhost # 0 THEN h[r.CDGhost].data ELSE <<>>
      r1 == GetRange(h[ptScalars].data, ptGhosts, r.PDGhostsToSkip)
      r2 == GetRange(h[cellScalars].data, cellGhosts, r.CDGhostsToSkip)
  IN IF ptScalars # 0 /\ cellScalars # 0 THEN CombineRanges(r1, r2)
     ELSE IF ptScalars # 0 THEN r1
     ELSE IF cellScalars # 0 THEN r2
     ELSE <<0, 1>>

\* The stamp of the scalar range is not written.
ScalarRangeStampForgotten(t, current) == 0

\* The stamp written at line 231.
ScalarRangeStamp(t, current) == TimeStampModified(t)

\* vtkDataSet::ComputeScalarRange
ComputeScalarRange(r, t, h) ==
  IF ScalarRangeStale(r)
  THEN [r |-> [r EXCEPT !.ScalarRange = RecomputedScalarRange(r, h),
                        !.ScalarRangeComputeTime = ScalarRangeStamp(t, GetMTime(r))],
        t |-> TimeStampModified(t),
        GetRange |-> (IF r.PDScalars # 0 THEN 1 ELSE 0) + (IF r.CDScalars # 0 THEN 1 ELSE 0),
        recomputed |-> TRUE]
  ELSE [r |-> r, t |-> t, GetRange |-> 0, recomputed |-> FALSE]

\* vtkDataSet::GetScalarRange
GetScalarRange(d) ==
  LET c == ComputeScalarRange(ds[d], GlobalTime, heap)
  IN Finish([ds EXCEPT ![d] = c.r], heap, c.t, Op("GetScalarRange", d, <<>>),
            c.r.ScalarRange, [GetPoint |-> <<>>, GetRange |-> c.GetRange, recomputed |-> c.recomputed])

\* ------------------------------------------------------------------ copies
\* The cached values are copied, the stamps are not.
InternalDataSetCopyValuesOnly(r, src) ==
  [r EXCEPT !.ScalarRange = src.ScalarRange, !.Bounds = src.Bounds]

\* vtkDataSet::InternalDataSetCopy
InternalDataSetCopy(r, src) ==
  [r EXCEPT !.ScalarRangeComputeTime = src.ScalarRangeComputeTime,
            !.ScalarRange = src.ScalarRange,
            !.ComputeTime = src.ComputeTime,
            !.Bounds = src.Bounds]

\* The subclass copies the points and the extent before it calls vtkDataSet's copy.
CopyStructure(r, src) ==
  [r EXCEPT !.Points = src.Points, !.ExtentType = src.ExtentType, !.Extent = src.Extent]

\* CellData->ShallowCopy(src cell data): the arrays are shared; Modified().
CellDataCopy(r, src, scalars, ghost, t) ==
  AttributesModified([r EXCEPT !.CDScalars = scalars, !.CDGhost = ghost,
                               !.CDGhostsToSkip = src.CDGhostsToSkip], "CELL", t)

\* PointData->ShallowCopy(src point data)
PointDataCopy(r, src, scalars, ghost, t) ==
  AttributesModified([r EXCEPT !.PDScalars = scalars, !.PDGhost = ghost,
                               !.PDGhostsToSkip = src.PDGhostsToSkip], "POINT", t)

\* vtkDataSet::ShallowCopy(dataObject), dataObject being the dataset s.
ShallowCopy(d) ==
  \E s \in DS \ {d} :
    LET src == ds[s]
        r0 == InternalDataSetCopy(CopyStructure(ds[d], src), src)
        r1 == CellDataCopy(r0, src, src.CDScalars, src.CDGhost, GlobalTime)
        r2 == PointDataCopy(r1, src, src.PDScalars, src.PDGhost, GlobalTime + 1)
    IN Finish([ds EXCEPT ![d] = r2], heap, GlobalTime + 2, Op("ShallowCopy", d, <<s>>),
              <<>>, NoCalls)

\* The handles of the duplicates DeepCopy makes of the arrays of src: each array
\* held is given the next free handle.
RECURSIVE Duplicate(_, _, _)
Duplicate(h, todo, map) ==
  IF todo = {} THEN [h |-> h, map |-> map]
  ELSE LET a == CHOOSE x \in todo : \A y \in todo : x <= y
           n == NewHandle(h)
       IN Duplicate([h EXCEPT ![n] = h[a]], todo \ {a}, [map EXCEPT ![a] = n])

\* vtkDataSet::DeepCopy(dataObject), dataObject being the dataset s.
DeepCopy(d) ==
  \E s \in DS \ {d} :
    LET src == ds[s]
        \* the arrays d held are released as the copies replace them
        freed == Collect([ds EXCEPT ![d] = NewDataSet(0)], heap)
    IN /\ Cardinality({a \in ArrIds : ~freed[a].live}) >= Cardinality(Held(src))
       /\ LET dup == Duplicate(freed, Held(src), [a \in 0..MaxArrays |-> 0])
              r0 == InternalDataSetCopy(CopyStructure(ds[d], src), src)
              r1 == CellDataCopy(r0, src, dup.map[src.CDScalars], dup.map[src.CDGhost],
                                 GlobalTime)
              r2 == PointDataCopy(r1, src, dup.map[src.PDScalars], dup.map[src.PDGhost],
                                  GlobalTime + 1)
          IN Finish([ds EXCEPT ![d] = r2], dup.h, GlobalTime + 2, Op("DeepCopy", d, <<s>>),
                    <<>>, NoCalls)

\* ------------------------------------------------------ the ghost arrays
\* vtkDataSet::GetPointGhostArray on the members r: the members after it (the
\* handle returned is their PointGhostArray).
GetPointGhostArray(r) ==
  IF ~r.PointGhostArrayCached
  THEN [r EXCEPT !.PointGhostArray = r.PDGhost, !.PointGhostArrayCached = TRUE]
  ELSE r

\* vtkDataSet::GetCellGhostArray
GetCellGhostArray(r) ==
  IF ~r.CellGhostArrayCached
  THEN [r EXCEPT !.CellGhostArray = r.CDGhost, !.CellGhostArrayCached = TRUE]
  ELSE r

\* The array gets one tuple more.
ZerosOneMore(n) == [i \in 1..(n + 1) |-> 0]

\* An array of n tuples, each 0 (SetNumberOfTuples, FillValue(0)).
Zeros(n) == [i \in 1..n |-> 0]

\* A new array is made and attached whether one is there or not.
AllocatePointGhostArrayAnew(d) ==
  /\ HasFree(heap)
  /\ LET ghosts == NewHandle(heap)
         r1 == AttributesModified([ds[d] EXCEPT !.PDGhost = ghosts], "POINT", GlobalTime)
         r2 == [r1 EXCEPT !.PointGhostArray = ghosts, !.PointGhostArrayCached = TRUE]
     IN Finish([ds EXCEPT ![d] = r2],
               [heap EXCEPT ![ghosts] =
                  [live |-> TRUE, data |-> Zeros(GetNumberOfPoints(ds[d]))]],
               TimeStampModified(GlobalTime),
               Op("AllocatePointGhostArray", d, <<>>), <<ghosts>>, NoCalls)

\* vtkDataSet::AllocatePointGhostArray
AllocatePointGhostArray(d) ==
  LET r0 == GetPointGhostArray(ds[d])
  IN IF r0.PointGhostArray = 0
     THEN /\ HasFree(heap)
          /\ LET ghosts == NewHandle(heap)
                 r1 == AttributesModified([r0 EXCEPT !.PDGhost = ghosts], "POINT", GlobalTime)
                 r2 == [r1 EXCEPT !.PointGhostArray = ghosts, !.PointGhostArrayCached = TRUE]
             IN Finish([ds EXCEPT ![d] = r2],
                       [heap EXCEPT ![ghosts] =
                          [live |-> TRUE, data |-> Zeros(GetNumberOfPoints(ds[d]))]],
                       TimeStampModified(GlobalTime),
                       Op("AllocatePointGhostArray", d, <<>>), <<ghosts>>, NoCalls)
     ELSE Finish([ds EXCEPT ![d] = r0], heap, GlobalTime,
                 Op("AllocatePointGhostArray", d, <<>>), <<r0.PointGhostArray>>, NoCalls)

\* vtkDataSet::AllocateCellGhostArray
AllocateCellGhostArray(d) ==
  LET r0 == GetCellGhostArray(ds[d])
  IN IF r0.CellGhostArray = 0
     THEN /\ HasFree(heap)
          /\ LET ghosts == NewHandle(heap)
                 r1 == AttributesModified([r0 EXCEPT !.CDGhost = ghosts], "CELL", GlobalTime)
                 r2 == [r1 EXCEPT !.CellGhostArray = ghosts, !.CellGhostArrayCached = TRUE]
             IN Finish([ds EXCEPT ![d] = r2],
                       [heap EXCEPT ![ghosts] =
                          [live |-> TRUE, data |-> Zeros(GetNumberOfCells(ds[d]))]],
                       TimeStampModified(GlobalTime),
                       Op("AllocateCellGhostArray", d, <<>>), <<ghosts>>, NoCalls)
     ELSE Finish([ds EXCEPT ![d] = r0], heap, GlobalTime,
                 Op("AllocateCellGhostArray", d, <<>>), <<r0.CellGhostArray>>, NoCalls)

\* RemoveArray(GhostArrayName()) on the point or cell data.
RemoveGhostArray(d) ==
  \E kind \in Kinds :
    /\ GhostOf(ds[d], kind) # 0
    /\ Finish([ds EXCEPT ![d] = AttributesModified(WithGhost(ds[d], kind, 0), kind, GlobalTime)],
              heap, TimeStampModified(GlobalTime), Op("RemoveGhostArray", d, <<kind>>),
              <<>>, NoCalls)

\* A caller sets another bit of the first or of the last entry of a ghost array
\* (SetValue on the array: no Modified()).
MarkOtherBit(d) ==
  \E kind \in Kinds, last \in BOOLEAN :
    LET a == GhostOf(ds[d], kind)
        bit == IF kind = "POINT" THEN HIDDENPOINT ELSE REFINEDCELL
    IN /\ a # 0
       /\ Len(heap[a].data) > 0
       /\ LET i == IF last THEN Len(heap[a].data) ELSE 1
          IN /\ BitAnd(heap[a].data[i], bit) = 0
             /\ Finish(ds, [heap EXCEPT ![a].data[i] = BitOr(@, bit)], GlobalTime,
                       Op("MarkOtherBit", d, <<kind>>), <<>>, NoCalls)

\* ------------------------------------------------------ GenerateGhostArray
\* Lines 752-760: the distance of the point index x to the canonical range lo..hi.
PointDist(x, lo, hi) == IF x > hi THEN x - hi + 1 ELSE IF x < lo THEN lo - x ELSE 0

\* Lines 841-849: the same for a cell index; the upper bound is exclusive.
CellDist(x, lo, hi) == IF x >= hi THEN x - hi + 1 ELSE IF x < lo THEN lo - x ELSE 0

\* Lines 784-792: the largest of the three.
Dist3(di, dj, dk) ==
  LET d1 == IF dj > di THEN dj ELSE di
  IN IF dk > d1 THEN dk ELSE d1

\* The entry is overwritten with the bit alone.
MarkEntryOverwrite(st, dist, bit) ==
  IF st.index < Len(st.arr)
  THEN [st EXCEPT !.arr[st.index + 1] = IF dist > 0 THEN bit ELSE @, !.index = @ + 1]
  ELSE [st EXCEPT !.index = @ + 1, !.oob = TRUE]

\* Lines 793-799 and 882-888: value = GetValue(index); if (dist > 0) value |= bit;
\* SetValue(index, value); index++. An index past the end of the array is an
\* access outside it.
MarkEntry(st, dist, bit) ==
  IF st.index < Len(st.arr)
  THEN [st EXCEPT !.arr[st.index + 1] = IF dist > 0 THEN BitOr(@, bit) ELSE @,
                  !.index = @ + 1]
  ELSE [st EXCEPT !.index = @ + 1, !.oob = TRUE]

\* The point test with ">=" for the upper bound, as in the cell loop.
PointMarkInclusive(ext, z, i, j, k, st) ==
  MarkEntry(st, Dist3(CellDist(i, z[1], z[2]), CellDist(j, z[3], z[4]),
                      CellDist(k, z[5], z[6])), DUPLICATEPOINT)

\* The body of the innermost point loop (lines 774-799) at (i, j, k).
PointMark(ext, z, i, j, k, st) ==
  MarkEntry(st, Dist3(PointDist(i, z[1], z[2]), PointDist(j, z[3], z[4]),
                      PointDist(k, z[5], z[6])), DUPLICATEPOINT)

\* Lines 750-802: for k, for j, for i over the inclusive extent, from (i, j, k) on.
RECURSIVE PointLoop(_, _, _, _, _, _)
PointLoop(ext, z, i, j, k, st) ==
  IF k > ext[6] THEN st
  ELSE IF j > ext[4] THEN PointLoop(ext, z, ext[1], ext[3], k + 1, st)
  ELSE IF i > ext[2] THEN PointLoop(ext, z, ext[1], j + 1, k, st)
  ELSE PointLoop(ext, z, i + 1, j, k, PointMark(ext, z, i, j, k, st))

\* The cell test with ">" for the upper bound, as in the point loop.
CellMarkExclusive(ext, z, i, j, k, st) ==
  MarkEntry(st, Dist3(PointDist(i, z[1], z[2]), PointDist(j, z[3], z[4]),
                      PointDist(k, z[5], z[6])), DUPLICATECELL)

\* The body of the innermost cell loop (lines 863-888) at (i, j, k).
CellMark(ext, z, i, j, k, st) ==
  MarkEntry(st, Dist3(CellDist(i, z[1], z[2]), CellDist(j, z[3], z[4]),
                      CellDist(k, z[5], z[6])), DUPLICATECELL)

\* Lines 839-891: for k, for j, for i over the extent, upper bounds exclusive.
RECURSIVE CellLoop(_, _, _, _, _, _)
CellLoop(ext, z, i, j, k, st) ==
  IF k >= ext[6] THEN st
  ELSE IF j >= ext[4] THEN CellLoop(ext, z, ext[1], ext[3], k + 1, st)
  ELSE IF i >= ext[2] THEN CellLoop(ext, z, ext[1], j + 1, k, st)
  ELSE CellLoop(ext, z, i + 1, j, k, CellMark(ext, z, i, j, k, st))

\* A flat axis is widened at its lower end.
InflateLower(extent, e) ==
  [n \in 1..6 |-> IF n % 2 = 1 /\ extent[n] = extent[n + 1] THEN e[n] - 1 ELSE e[n]]

\* Lines 822-836: a flat axis of extent is widened by one, in e (extent or zeroExt).
Inflate(extent, e) ==
  [n \in 1..6 |-> IF n % 2 = 0 /\ extent[n - 1] = extent[n] THEN e[n] + 1 ELSE e[n]]

\* Lines 736-803, the points, on the members r and the arrays h at time t: the
\* ghost array is looked up by name, made if there is none, and marked.
GhostPoints(r, h, t, zeroExt) ==
  LET present == r.PDGhost # 0
      ghostPoints == IF present THEN r.PDGhost ELSE NewHandle(h)
      h1 == IF present THEN h
            ELSE [h EXCEPT ![ghostPoints] =
                    [live |-> TRUE, data |-> Zeros(StructuredNumberOfPoints(r.Extent))]]
      r1 == IF present THEN r
            ELSE AttributesModified([r EXCEPT !.PDGhost = ghostPoints], "POINT", t)
      st == PointLoop(r.Extent, zeroExt, r.Extent[1], r.Extent[3], r.Extent[5],
                      [arr |-> h1[ghostPoints].data, index |-> 0, oob |-> FALSE])
  IN [r |-> r1, h |-> [h1 EXCEPT ![ghostPoints].data = st.arr],
      t |-> IF present THEN t ELSE TimeStampModified(t), oob |-> st.oob, index |-> st.index]

\* Lines 807-891, the cells.
GhostCells(r, h, t, zeroExt) ==
  LET present == r.CDGhost # 0
      ghostCells == IF present THEN r.CDGhost ELSE NewHandle(h)
      h1 == IF present THEN h
            ELSE [h EXCEPT ![ghostCells] =
                    [live |-> TRUE, data |-> Zeros(StructuredNumberOfCells(r.Extent))]]
      r1 == IF present THEN r
            ELSE AttributesModified([r EXCEPT !.CDGhost = ghostCells], "CELL", t)
      extent == Inflate(r.Extent, r.Extent)
      zero == Inflate(r.Extent, zeroExt)
      st == CellLoop(extent, zero, extent[1], extent[3], extent[5],
                     [arr |-> h1[ghostCells].data, index |-> 0, oob |-> FALSE])
  IN [r |-> r1, h |-> [h1 EXCEPT ![ghostCells].data = st.arr],
      t |-> IF present THEN t ELSE TimeStampModified(t), oob |-> st.oob, index |-> st.index,
      zeroExt |-> zero]

\* The points are marked whatever cellOnly says.
PointsPassAlways(r, h, t, zeroExt, cellOnly) == GhostPoints(r, h, t, zeroExt)

\* Lines 732-803: the part for the points is skipped when cellOnly is set.
PointsPass(r, h, t, zeroExt, cellOnly) ==
  IF cellOnly
  THEN [r |-> r, h |-> h, t |-> t, oob |-> FALSE, index |-> 0]
  ELSE GhostPoints(r, h, t, zeroExt)

\* The early return is never taken.
SameExtentNever(extent, zeroExt) == FALSE

\* Lines 717-726: extent and zeroExt agree in all six components.
SameExtent(extent, zeroExt) == \A i \in 1..6 : extent[i] = zeroExt[i]

\* vtkDataSet::GenerateGhostArray(zeroExt, cellOnly) on dataset d; it returns
\* zeroExt as the call leaves the caller's array.
GenerateGhostArrayWith(d, zeroExt, cellOnly) ==
  LET r == ds[d]
      op == Op("GenerateGhostArray", d, <<zeroExt, cellOnly>>)
  IN IF r.ExtentType # VTK_3D_EXTENT \/ SameExtent(r.Extent, zeroExt)
     THEN Finish(ds, heap, GlobalTime, op, zeroExt, NoCalls)
     ELSE /\ Cardinality({a \in ArrIds : ~heap[a].live}) >=
               (IF cellOnly \/ r.PDGhost # 0 THEN 0 ELSE 1) + (IF r.CDGhost # 0 THEN 0 ELSE 1)
          /\ \E p \in {PointsPass(r, heap, GlobalTime, zeroExt, cellOnly)} :
             \E c \in {GhostCells(p.r, p.h, p.t, zeroExt)} :
                Commit([ds EXCEPT ![d] = c.r], c.h, c.t, op, c.zeroExt, NoCalls,
                       ub \/ p.oob \/ c.oob)

GenerateGhostArray(d) ==
  \E zeroExt \in ZeroExtents, cellOnly \in BOOLEAN :
    GenerateGhostArrayWith(d, zeroExt, cellOnly)

\* ------------------------------------------------------- vtkSMPTools::For
\* The worker threads.
Workers == {1, 2}

\* The members of the set S of numbers in rising order.
RECURSIVE SortedSeq(_)
SortedSeq(S) ==
  IF S = {} THEN <<>>
  ELSE LET m == CHOOSE x \in S : \A y \in S : x <= y
       IN <<m>> \o SortedSeq(S \ {m})

\* The chunks [begin, end) of [0, N) cut at the indices cuts.
ChunksAt(N, cuts) ==
  LET b == <<0>> \o SortedSeq(cuts) \o <<N>>
  IN [n \in 1..(Len(b) - 1) |-> <<b[n], b[n + 1]>>]

\* The ways For(0, N, functor) may run: the chunks, the order they are run in
\* (order[n] is the chunk run n-th), the worker of each chunk, whether a worker
\* without a chunk has initialized its thread-local state all the same, and
\* whether the thread-local states are merged from the last worker to the first.
\* Nothing is run when N is 0.
ForPlans(N) ==
  IF N <= 0
  THEN {[chunks |-> <<>>, order |-> <<>>, worker |-> <<>>, idle |-> i, reverse |-> FALSE] :
          i \in BOOLEAN}
  ELSE UNION {
         {[chunks |-> ChunksAt(N, c), order |-> o, worker |-> w, idle |-> i, reverse |-> rv] :
            o \in Permutations(1..(Cardinality(c) + 1)),
            w \in [1..(Cardinality(c) + 1) -> Workers],
            i \in BOOLEAN, rv \in BOOLEAN} :
         c \in {c \in SUBSET (1..(N - 1)) : Cardinality(c) < MaxChunks}}

\* One worker runs the whole range as one chunk.
SerialPlan(N) ==
  IF N <= 0
  THEN [chunks |-> <<>>, order |-> <<>>, worker |-> <<>>, idle |-> FALSE, reverse |-> FALSE]
  ELSE [chunks |-> <<(<<0, N>>)>>, order |-> <<1>>, worker |-> <<1>>, idle |-> FALSE,
        reverse |-> FALSE]

\* The thread-local states there are when the chunks are done, in the order
\* Reduce meets them; tl[w] is none for a worker that has none.
LocalsOf(plan, tl, none, initial) ==
  LET all == [w \in Workers |-> IF tl[w] = none /\ plan.idle THEN initial ELSE tl[w]]
      ws == IF plan.reverse THEN <<2, 1>> ELSE <<1, 2>>
  IN SelectSeq([n \in 1..2 |-> all[ws[n]]], LAMBDA x : x # none)

\* ---------------------------------------------------- IsAnyBitSetFunctor
\* Initialize(): TLIsAnyBit.Local() = 0
IsAnyBitInitialize == 0

\* operator() that stores what this chunk found, whatever was found before.
IsAnyBitCallOverwrite(bitSet, bitFlag, local, begin, end) ==
  IF \E i \in begin..(end - 1) : BitAnd(bitSet[i + 1], bitFlag) # 0 THEN 1 ELSE 0

\* operator()(begin, end) on the thread-local value local: nothing is looked at
\* once it is set; else it is set at the first entry that has a bit of bitFlag.
IsAnyBitCall(bitSet, bitFlag, local, begin, end) ==
  IF local # 0 THEN local
  ELSE IF \E i \in begin..(end - 1) : BitAnd(bitSet[i + 1], bitFlag) # 0 THEN 1 ELSE 0

\* The chunks from the n-th on are run; -1 stands for no thread-local value.
RECURSIVE IsAnyBitRun(_, _, _, _, _)
IsAnyBitRun(bitSet, bitFlag, plan, n, tl) ==
  IF n > Len(plan.chunks) THEN tl
  ELSE LET c == plan.chunks[plan.order[n]]
           w == plan.worker[plan.order[n]]
           local == IF tl[w] = -1 THEN IsAnyBitInitialize ELSE tl[w]
       IN IsAnyBitRun(bitSet, bitFlag, plan, n + 1,
                      [tl EXCEPT ![w] = IsAnyBitCall(bitSet, bitFlag, local, c[1], c[2])])

\* Reduce(): IsAnyBit = 0, then 1 at the first thread-local value that is set.
RECURSIVE IsAnyBitReduceFrom(_, _)
IsAnyBitReduceFrom(locals, n) ==
  IF n > Len(locals) THEN 0
  ELSE IF locals[n] # 0 THEN 1
  ELSE IsAnyBitReduceFrom(locals, n + 1)

\* vtkSMPTools::For(0, a->GetNumberOfTuples(), isAnyBitSetFunctor) run as plan
\* says: the functor's IsAnyBit.
ForIsAnyBit(bitSet, bitFlag, plan) ==
  IsAnyBitReduceFrom(
    LocalsOf(plan, IsAnyBitRun(bitSet, bitFlag, plan, 1, [w \in Workers |-> -1]),
             -1, IsAnyBitInitialize), 1)

\* A null array counts as one with a bit set.
IsAnyBitSetNullIsSet(h, a, bitFlag, plan) ==
  IF a # 0 THEN ForIsAnyBit(h[a].data, bitFlag, plan) # 0 ELSE TRUE

\* vtkDataSet::IsAnyBitSet(a, bitFlag), the arrays being h.
IsAnyBitSet(h, a, bitFlag, plan) ==
  IF a # 0 THEN ForIsAnyBit(h[a].data, bitFlag, plan) # 0 ELSE FALSE

\* The number of tuples of the array a (of no array: 0).
GetNumberOfTuples(h, a) == IF a # 0 THEN Len(h[a].data) ELSE 0

\* vtkDataSet::HasAnyGhostPoints
HasAnyGhostPoints(d) ==
  \E r0 \in {GetPointGhostArray(ds[d])} :
    \E plan \in ForPlans(GetNumberOfTuples(heap, r0.PointGhostArray)) :
      Finish([ds EXCEPT ![d] = r0], heap, GlobalTime, Op("HasAnyGhostPoints", d, <<>>),
             <<IsAnyBitSet(heap, r0.PointGhostArray, DUPLICATEPOINT, plan)>>, NoCalls)

\* vtkDataSet::HasAnyGhostCells
HasAnyGhostCells(d) ==
  \E r0 \in {GetCellGhostArray(ds[d])} :
    \E plan \in ForPlans(GetNumberOfTuples(heap, r0.CellGhostArray)) :
      Finish([ds EXCEPT ![d] = r0], heap, GlobalTime, Op("HasAnyGhostCells", d, <<>>),
             <<IsAnyBitSet(heap, r0.CellGhostArray, DUPLICATECELL, plan)>>, NoCalls)

\* ------------------------------------------- ComputeBounds under any plan
\* The loop of operator() runs to end inclusive.
FunctorCallIdsInclusive(begin, end) == [n \in 1..(end - begin + 1) |-> begin + n - 1]

\* Lines 131-133: the point ids operator()(begin, end) calls GetPoint with.
FunctorCallIds(begin, end) == [n \in 1..(end - begin) |-> begin + n - 1]

\* The chunks from the n-th on are run on the thread-local boxes tl; <<>> stands
\* for no box.
RECURSIVE BoundsRun(_, _, _, _)
BoundsRun(pts, plan, n, tl) ==
  IF n > Len(plan.chunks) THEN tl
  ELSE LET c == plan.chunks[plan.order[n]]
           w == plan.worker[plan.order[n]]
           local == IF tl[w] = <<>> THEN FunctorInitialize ELSE tl[w]
       IN BoundsRun(pts, plan, n + 1, [tl EXCEPT ![w] = FunctorCall(pts, local, c[1], c[2])])

\* vtkSMPTools::For(0, N, functor) run as plan says: functor.Bounds.
ForBounds(pts, plan) ==
  FunctorReduce(LocalsOf(plan, BoundsRun(pts, plan, 1, [w \in Workers |-> <<>>]),
                         <<>>, FunctorInitialize))

\* How often GetPoint was called with each id during that run: entry n counts
\* the calls with id n - 1, the last entry the calls with N, which is no point's id.
ForBoundsCalls(pts, plan) ==
  [n \in 1..(Len(pts) + 1) |->
    LET ids(c) == FunctorCallIds(plan.chunks[c][1], plan.chunks[c][2])
    IN Cardinality({<<c, k>> \in (1..Len(plan.chunks)) \X (1..(Len(pts) + 1)) :
                      k <= Len(ids(c)) /\ ids(c)[k] = n - 1})]

\* vtkDataSet::ComputeBounds, the reduction run as plan says.
ComputeBoundsWith(r, t, plan) ==
  IF BoundsStale(r)
  THEN [r |-> [r EXCEPT !.Bounds = IF GetNumberOfPoints(r) # 0
                                   THEN ForBounds(PointsOf(r), plan)
                                   ELSE UninitializeBounds,
                        !.ComputeTime = BoundsStamp(t, GetMTime(r))],
        t |-> TimeStampModified(t),
        GetPoint |-> IF GetNumberOfPoints(r) # 0
                     THEN ForBoundsCalls(PointsOf(r), plan) ELSE <<>>,
        recomputed |-> TRUE]
  ELSE [r |-> r, t |-> t, GetPoint |-> <<>>, recomputed |-> FALSE]

\* vtkDataSet::GetBounds, the reduction (if there is one) run in any of the ways
\* it may be.
GetBoundsWith(d) ==
  \E plan \in (IF BoundsStale(ds[d]) THEN ForPlans(GetNumberOfPoints(ds[d]))
                ELSE {SerialPlan(0)}) :
    \E c \in {ComputeBoundsWith(ds[d], GlobalTime, plan)} :
      Finish([ds EXCEPT ![d] = c.r], heap, c.t, Op("GetBounds", d, <<>>),
             c.r.Bounds, [GetPoint |-> c.GetPoint, GetRange |-> 0, recomputed |-> c.recomputed])

\* ------------------------------------- GenerateGhostArray with nothing to mark
\* Extents of small structured datasets.
SmallExtents == {<<0, 1, 0, 0, 0, 0>>, <<0, 1, 0, 1, 0, 0>>}

\* GenerateGhostArray is called with the extent of the dataset; on a dataset that
\* is not structured, with any canonical extent.
GenerateSameExtent(d) ==
  \E cellOnly \in BOOLEAN :
    \E zeroExt \in (IF ds[d].ExtentType = VTK_3D_EXTENT THEN {ds[d].Extent} ELSE ZeroExtents) :
      GenerateGhostArrayWith(d, zeroExt, cellOnly)

\* Dataset 1 is a small structured dataset or a point set without points.
InitSame ==
  /\ InitCommon
  /\ \E r \in {NewDataSet(0)} \cup
               {[NewDataSet(0) EXCEPT !.ExtentType = VTK_3D_EXTENT, !.Extent = e] :
                  e \in SmallExtents} :
       ds = [d \in DS |-> IF d = 1 THEN r ELSE NewDataSet(3)]

NextSame ==
  \/ GenerateSameExtent(1)
  \/ InsertNextPoint(1)
  \/ AllocatePointGhostArray(1)
  \/ AllocateCellGhostArray(1)
  \/ HasAnyGhostPoints(1)
  \/ HasAnyGhostCells(1)

SpecSame == InitSame /\ [][NextSame]_vars

\* The reductions, on a small structured dataset or on a point set.
NextReduce ==
  \/ InsertNextPoint(1)
  \/ GetBoundsWith(1)
  \/ AllocatePointGhostArray(1)
  \/ AllocateCellGhostArray(1)
  \/ GenerateGhostArray(1)
  \/ HasAnyGhostPoints(1)
  \/ HasAnyGhostCells(1)

\* Dataset 1 is a row of three points (two cells) or a point set without points.
InitReduce ==
  /\ InitCommon
  /\ \E r \in {NewDataSet(0),
               [NewDataSet(0) EXCEPT !.ExtentType = VTK_3D_EXTENT,
                                     !.Extent = <<0, 2, 0, 0, 0, 0>>]} :
       ds = [d \in DS |-> IF d = 1 THEN r ELSE NewDataSet(3)]

SpecReduce == InitReduce /\ [][NextReduce]_vars

\* ------------------------------------------------- the ghost array handles
\* Ghost arrays a caller may attach.
GhostChoices == {<<>>, <<2>>, <<2, 1>>, <<0, 0, 1>>}

\* AddArray of an array named as the ghost array is, on the point or cell data:
\* it takes the place of the one that is there. A structured dataset is given
\* arrays of as many tuples as it has points or cells only.
AddGhostArray(d) ==
  \E kind \in Kinds, data \in GhostChoices :
    /\ HasFree(heap)
    /\ ds[d].ExtentType = VTK_3D_EXTENT =>
         Len(data) = (IF kind = "POINT" THEN GetNumberOfPoints(ds[d])
                      ELSE GetNumberOfCells(ds[d]))
    /\ LET a == NewHandle(heap)
       IN Finish([ds EXCEPT ![d] = AttributesModified(WithGhost(ds[d], kind, a), kind, GlobalTime)],
                 [heap EXCEPT ![a] = [live |-> TRUE, data |-> data]],
                 TimeStampModified(GlobalTime), Op("AddGhostArray", d, <<kind>>), <<>>, NoCalls)

\* The attribute types a caller may name.
AttributeTypes == {"POINT", "CELL", "FIELD"}

\* An attribute type that is no point's falls through to the cell ghost array.
GetGhostArrayElseCell(r, attributeType) ==
  IF attributeType = "POINT"
  THEN [r |-> GetPointGhostArray(r), value |-> GetPointGhostArray(r).PointGhostArray,
        error |-> FALSE]
  ELSE [r |-> GetCellGhostArray(r), value |-> GetCellGhostArray(r).CellGhostArray,
        error |-> FALSE]

\* vtkDataSet::GetGhostArray(attributeType) on the members r: the members after
\* it, the handle returned, whether vtkErrorMacro has reported.
GetGhostArrayOf(r, attributeType) ==
  IF attributeType = "POINT"
  THEN [r |-> GetPointGhostArray(r), value |-> GetPointGhostArray(r).PointGhostArray,
        error |-> FALSE]
  ELSE IF attributeType = "CELL"
  THEN [r |-> GetCellGhostArray(r), value |-> GetCellGhostArray(r).CellGhostArray,
        error |-> FALSE]
  ELSE [r |-> r, value |-> 0, error |-> TRUE]

GetGhostArray(d) ==
  \E attributeType \in AttributeTypes :
    LET g == GetGhostArrayOf(ds[d], attributeType)
    IN Finish([ds EXCEPT ![d] = g.r], heap, GlobalTime,
              Op("GetGhostArray", d, <<attributeType>>), <<g.value, g.error>>, NoCalls)

\* ---------------------------------------------------------- CheckAttributes
\* The orders the arrays of an attribute set may stand in.
ArrayOrders(S) ==
  LET up == SortedSeq(S)
  IN {up, [n \in 1..Len(up) |-> up[Len(up) + 1 - n]]}

\* The test for too few tuples also holds for as many tuples as elements.
RECURSIVE TooFewOrEqual(_, _, _, _, _)
TooFewOrEqual(h, arrays, num, idx, warned) ==
  IF idx > Len(arrays) THEN [result |-> 0, warnings |-> warned]
  ELSE LET numTuples == Len(h[arrays[idx]].data)
       IN IF numTuples <= num THEN [result |-> 1, warnings |-> warned]
          ELSE TooFewOrEqual(h, arrays, num, idx + 1,
                             warned + (IF numTuples > num THEN 1 ELSE 0))

\* The loop over the arrays of one attribute set (lines 645-665, 675-698), from
\* the array idx on: 1 at the first array with fewer tuples than num, and the
\* warnings given till then.
RECURSIVE CheckArrays(_, _, _, _, _)
CheckArrays(h, arrays, num, idx, warned) ==
  IF idx > Len(arrays) THEN [result |-> 0, warnings |-> warned]
  ELSE LET numTuples == Len(h[arrays[idx]].data)
       IN IF numTuples < num THEN [result |-> 1, warnings |-> warned]
          ELSE CheckArrays(h, arrays, num, idx + 1,
                           warned + (IF numTuples > num THEN 1 ELSE 0))

\* vtkDataSet::CheckAttributes; it returns the result, the number of errors and
\* the number of warnings reported.
CheckAttributes(d) ==
  \E pointArrays \in ArrayOrders({ds[d].PDScalars, ds[d].PDGhost} \ {0}),
     cellArrays \in ArrayOrders({ds[d].CDScalars, ds[d].CDGhost} \ {0}) :
    LET p == CheckArrays(heap, pointArrays, GetNumberOfPoints(ds[d]), 1, 0)
        c == CheckArrays(heap, cellArrays, GetNumberOfCells(ds[d]), 1, p.warnings)
    IN Finish(ds, heap, GlobalTime, Op("CheckAttributes", d, <<>>),
              IF p.result = 1 THEN <<1, 1, p.warnings>> ELSE <<c.result, c.result, c.warnings>>,
              NoCalls)

\* A structured source of copies after GenerateGhostArray(zeroExt, true) with
\* zeroExt = [1,1,0,0,0,0]: it holds a cell ghost array, its one cell marked.
SourceGhost ==
  GhostCells([NewDataSet(3) EXCEPT !.ExtentType = VTK_3D_EXTENT, !.Extent = <<0, 1, 0, 0, 0, 0>>],
             [a \in ArrIds |-> FreeCell], 6, <<1, 1, 0, 0, 0, 0>>)

\* Canonical extents handed to GenerateGhostArray on the two-point row.
CacheExtents == {<<1, 1, 0, 0, 0, 0>>, <<0, 1, 0, 0, 0, 0>>}

GenerateOnRow(d) ==
  \E zeroExt \in CacheExtents, cellOnly \in BOOLEAN : GenerateGhostArrayWith(d, zeroExt, cellOnly)

\* Dataset 1 is a point set of no or two points or a structured dataset of two
\* points; the source of copies holds a ghost array or none.
InitCache ==
  /\ GlobalTime = 9
  /\ lastOp = Op("New", 0, <<>>)
  /\ ret = <<>>
  /\ calls = NoCalls
  /\ hist = [d \in DS |-> NoHist]
  /\ pc = "idle"
  /\ ub = FALSE
  /\ \E r \in {NewDataSet(0),
               [NewDataSet(0) EXCEPT !.Points = <<<<-1, -1, -1>>, <<1, 1, 1>>>>],
               [NewDataSet(0) EXCEPT !.ExtentType = VTK_3D_EXTENT, !.Extent = <<0, 1, 0, 0, 0, 0>>]},
        withGhost \in BOOLEAN :
       /\ ds = [d \in DS |-> IF d = 1 THEN r
                              ELSE IF withGhost THEN SourceGhost.r ELSE NewDataSet(3)]
       /\ heap = IF withGhost THEN SourceGhost.h ELSE [a \in ArrIds |-> FreeCell]

NextCache ==
  \/ AddGhostArray(1)
  \/ RemoveGhostArray(1)
  \/ AllocatePointGhostArray(1)
  \/ AllocateCellGhostArray(1)
  \/ GenerateOnRow(1)
  \/ SetScalars(1)
  \/ ShallowCopy(1)
  \/ DeepCopy(1)
  \/ GetGhostArray(1)
  \/ CheckAttributes(1)

SpecCache == InitCache /\ [][NextCache]_vars

\* ------------------------------------- GenerateGhostArray on small extents
\* True extents: empty, a row of two points, a square of four, a cube of eight.
GenExtents == {<<0, -1, 0, -1, 0, -1>>, <<0, 1, 0, 0, 0, 0>>, <<0, 1, 0, 1, 0, 0>>,
               <<0, 1, 0, 1, 0, 1>>}

\* AddArray of an array named as the ghost array is, of whatever size, on the
\* point or cell data of a structured dataset.
AddGhostArrayOfAnySize(d) ==
  \E kind \in Kinds, data \in GhostChoices :
    /\ HasFree(heap)
    /\ ds[d].ExtentType = VTK_3D_EXTENT
    /\ LET a == NewHandle(heap)
       IN Finish([ds EXCEPT ![d] = AttributesModified(WithGhost(ds[d], kind, a), kind, GlobalTime)],
                 [heap EXCEPT ![a] = [live |-> TRUE, data |-> data]],
                 TimeStampModified(GlobalTime), Op("AddGhostArray", d, <<kind>>), <<>>, NoCalls)

InitGen ==
  /\ InitCommon
  /\ \E ext \in GenExtents :
       ds = [d \in DS |-> IF d = 1
                           THEN [NewDataSet(0) EXCEPT !.ExtentType = VTK_3D_EXTENT, !.Extent = ext]
                           ELSE NewDataSet(3)]

\* The ghost arrays are those the dataset made itself.
NextGen ==
  \/ GenerateGhostArray(1)
  \/ RemoveGhostArray(1)
  \/ AllocatePointGhostArray(1)
  \/ AllocateCellGhostArray(1)

SpecGen == InitGen /\ [][NextGen]_vars

\* A caller attaches ghost arrays too, of whatever size.
NextGenAnySize ==
  \/ GenerateGhostArray(1)
  \/ RemoveGhostArray(1)
  \/ AddGhostArrayOfAnySize(1)

SpecGenAnySize == InitGen /\ [][NextGenAnySize]_vars

\* ------------------------------------------------- copies and their source
\* vtkDataSet::ShallowCopy(dataObject) and DeepCopy(dataObject), dataObject being
\* no dataset (0 stands for it): SafeDownCast gives nullptr and only the copy of
\* the superclass runs, which reads and writes no member of vtkDataSet.
CopyDataObject(d) ==
  \E deep \in BOOLEAN :
    Finish(ds, heap, GlobalTime, Op(IF deep THEN "DeepCopy" ELSE "ShallowCopy", d, <<0>>),
           <<>>, NoCalls)

\* Dataset 1 is a new point set; dataset 2, the source of the copies, is the
\* structured row of two points holding a cell ghost array.
InitCopy ==
  /\ GlobalTime = 9
  /\ lastOp = Op("New", 0, <<>>)
  /\ ret = <<>>
  /\ calls = NoCalls
  /\ hist = [d \in DS |-> NoHist]
  /\ pc = "idle"
  /\ ub = FALSE
  /\ ds = [d \in DS |-> IF d = 1 THEN NewDataSet(0) ELSE SourceGhost.r]
  /\ heap = SourceGhost.h

\* The source is queried and written, also in place; dataset 1 is queried, given
\* scalars and made a copy of the source or of an object that is no dataset.
NextCopy ==
  \/ GetBounds(2)
  \/ GetScalarRange(2)
  \/ SetScalars(2)
  \/ MarkOtherBit(2)
  \/ GetBounds(1)
  \/ GetScalarRange(1)
  \/ SetScalars(1)
  \/ ShallowCopy(1)
  \/ DeepCopy(1)
  \/ CopyDataObject(1)

SpecCopy == InitCopy /\ [][NextCopy]_vars

\* Structured datasets: dataset 1 has one of the true extents.
InitStructured ==
  /\ InitCommon
  /\ \E e \in TrueExtents :
       ds = [d \in DS |->
              IF d = 1 THEN [NewDataSet(0) EXCEPT !.ExtentType = VTK_3D_EXTENT, !.Extent = e]
              ELSE NewDataSet(3)]

\* A structured dataset of two points and one cell, for the scalar range.
ScalarExtent == <<0, 1, 0, 0, 0, 0>>

InitScalar ==
  /\ InitCommon
  /\ ds = [d \in DS |->
            IF d = 1 THEN [NewDataSet(0) EXCEPT !.ExtentType = VTK_3D_EXTENT,
                                                !.Extent = ScalarExtent]
            ELSE NewDataSet(3)]

NextScalar ==
  \/ SetScalars(1)
  \/ RemoveScalars(1)
  \/ SetGhostsToSkip(1)
  \/ GenerateGhostArray(1)
  \/ GetScalarRange(1)

SpecScalar == InitScalar /\ [][NextScalar]_vars

NextGhost ==
  \/ GenerateGhostArray(1)
  \/ AllocatePointGhostArray(1)
  \/ AllocateCellGhostArray(1)
  \/ RemoveGhostArray(1)
  \/ MarkOtherBit(1)

SpecGhost == InitStructured /\ [][NextGhost]_vars

\* ----------------------------------------------------------- initial states
\* The source of the copies, a point set built after dataset 1: its point was
\* set at time 7; then nothing more happened to it, or its bounds were queried
\* (time 8), or they were queried and the point was moved afterwards (time 9).
SourceFresh == [NewDataSet(3) EXCEPT !.Points = <<<<1, 1, 1>>>>, !.MTime = 7]

SourceQueried == ComputeBounds(SourceFresh, 7, 0, TRUE).r

SourceMoved == [SourceQueried EXCEPT !.Points = <<<<-1, 1, 0>>>>, !.MTime = 9]

\* Dataset 1 is an empty point set, newly built.
Init ==
  /\ InitCommon
  /\ \E src \in {SourceFresh, SourceQueried, SourceMoved} :
       ds = [d \in DS |-> IF d = 1 THEN NewDataSet(0) ELSE src]

\* ---------------------------------------------------------- specifications
\* Point sets: coordinates change, attribute sets are written, caches are
\* queried, dataset 1 copies dataset 2.
Next ==
  \/ SetPoint(1)
  \/ InsertNextPoint(1)
  \/ ResetPoints(1)
  \/ GetBounds(1)
  \/ GetCenter(1)
  \/ GetLength2(1)
  \/ SetScalars(1)
  \/ RemoveScalars(1)
  \/ GetScalarRange(1)
  \/ ShallowCopy(1)
  \/ DeepCopy(1)

Spec == Init /\ [][Next]_vars


\* ------------------------------------------------ queries between mutations
\* Dataset 1 is a point set of no or of two points.
InitQuery ==
  /\ InitCommon
  /\ \E pts \in {<<>>, <<<<-1, -1, -1>>, <<1, 1, 1>>>>} :
       ds = [d \in DS |-> IF d = 1 THEN [NewDataSet(0) EXCEPT !.Points = pts]
                           ELSE NewDataSet(3)]

\* The point set is given scalars and a point ghost array, and every query of
\* the caches is made in between.
NextQuery ==
  \/ SetScalars(1)
  \/ AllocatePointGhostArray(1)
  \/ GetBounds(1)
  \/ GetCenter(1)
  \/ GetLength2(1)
  \/ GetScalarRange(1)
  \/ HasAnyGhostPoints(1)
  \/ HasAnyGhostCells(1)
  \/ GetGhostArray(1)

SpecQuery == InitQuery /\ [][NextQuery]_vars

\* ------------------------------------------- a query racing with a mutator
\* GetBounds of dataset 1 run by one thread statement by statement, while another
\* thread moves and adds points (SetPoint, InsertNextPoint) in between.

\* Line 174: the staleness test. A fresh cache is returned at once.
RaceTest ==
  /\ pc = "idle"
  /\ IF BoundsStale(ds[1])
     THEN /\ pc' = "compute"
          /\ UNCHANGED <<GlobalTime, ds, heap, lastOp, ret, calls, hist, ub>>
     ELSE /\ pc' = "idle"
          /\ lastOp' = Op("GetBounds", 1, <<"hit">>)
          /\ ret' = ds[1].Bounds
          /\ calls' = NoCalls
          /\ UNCHANGED <<GlobalTime, ds, heap, hist, ub>>

\* Lines 176-185: the reduction over the points as they are now, copied to Bounds.
RaceCompute ==
  /\ pc = "compute"
  /\ \E cut \in 0..GetNumberOfPoints(ds[1]), sameThread \in BOOLEAN :
       ds' = [ds EXCEPT ![1].Bounds = RecomputedBounds(ds[1], cut, sameThread)]
  /\ pc' = "stamp"
  /\ UNCHANGED <<GlobalTime, heap, lastOp, ret, calls, hist, ub>>

\* Line 186, and the return of GetBounds.
RaceStamp ==
  /\ pc = "stamp"
  /\ GlobalTime < MaxTime
  /\ ds' = [ds EXCEPT ![1].ComputeTime = BoundsStamp(GlobalTime, GetMTime(ds[1]))]
  /\ GlobalTime' = TimeStampModified(GlobalTime)
  /\ pc' = "idle"
  /\ lastOp' = Op("GetBounds", 1, <<"recomputed">>)
  /\ ret' = ds[1].Bounds
  /\ UNCHANGED <<heap, calls, hist, ub>>

NextRace ==
  \/ RaceTest
  \/ RaceCompute
  \/ RaceStamp
  \/ SetPoint(1)
  \/ InsertNextPoint(1)

SpecRace == Init /\ [][NextRace]_vars

\* ------------------------------------------------------------- references
\* The smallest and the largest coordinate of the points pts on an axis.
AxisMin(pts, axis) ==
  CHOOSE v \in {pts[i][axis] : i \in 1..Len(pts)} : \A i \in 1..Len(pts) : v <= pts[i][axis]

AxisMax(pts, axis) ==
  CHOOSE v \in {pts[i][axis] : i \in 1..Len(pts)} : \A i \in 1..Len(pts) : v >= pts[i][axis]

\* The bounding box of pts; the uninitialized box when there is no point.
BoundingBox(pts) ==
  IF Len(pts) = 0 THEN UninitializeBounds
  ELSE <<AxisMin(pts, 1), AxisMax(pts, 1), AxisMin(pts, 2), AxisMax(pts, 2),
         AxisMin(pts, 3), AxisMax(pts, 3)>>

\* ------------------------------------------------------------------ claims
\* C1: bounds are never stale. Whatever point mutations, attribute writes, copies
\* and queries came before, every GetBounds returns the bounding box of the
\* coordinates the dataset has at that call.
C1_BoundsNeverStale ==
  lastOp.op = "GetBounds" => ret = BoundingBox(PointsOf(ds[lastOp.d]))

\* A GetBounds that recomputed after an earlier recomputation of the same dataset,
\* i.e. a re-query after a mutation.
C1_Witness ==
  /\ lastOp = Op("GetBounds", 1, <<>>)
  /\ calls.GetPoint # <<>>
  /\ hist[1].nBounds >= 2
  /\ ret = BoundingBox(ds[1].Points)

\* C2: a recomputation over N > 0 points yields, on each axis, the minimum and
\* the maximum of that coordinate over all the points, whatever their signs.
C2_RecomputedMinMax ==
  (lastOp.op = "GetBounds" /\ calls.GetPoint # <<>>) =>
    \A axis \in 1..3 :
      /\ ret[2 * axis - 1] = AxisMin(PointsOf(ds[lastOp.d]), axis)
      /\ ret[2 * axis] = AxisMax(PointsOf(ds[lastOp.d]), axis)

\* A recomputation over two points that are both negative on the first axis, differ
\* on the second and the third.
C2_Witness ==
  /\ lastOp = Op("GetBounds", 1, <<>>)
  /\ calls.GetPoint = <<1, 1>>
  /\ ds[1].Points = <<<<-1, 1, 0>>, <<-1, -1, -1>>>>
  /\ ret = <<-1, -1, -1, 1, -1, 0>>

\* C3: a query repeated with no clock advance in between returns the value the
\* earlier query returned and calls no accessor: GetPoint for the bounds, GetRange
\* for the scalar range.
C3_QueryIdempotent ==
  [][/\ (lastOp'.op = "GetBounds" /\ hist[lastOp'.d].bounds # <<>>) =>
          (ret' = hist[lastOp'.d].bounds /\ calls'.GetPoint = <<>> /\ ~calls'.recomputed)
     /\ (lastOp'.op = "GetScalarRange" /\ hist[lastOp'.d].range # <<>>) =>
          (ret' = hist[lastOp'.d].range /\ calls'.GetRange = 0 /\ ~calls'.recomputed)]_vars

\* A second GetBounds on a dataset with points, served without a GetPoint call.
C3_Witness ==
  /\ lastOp = Op("GetBounds", 1, <<>>)
  /\ Len(ds[1].Points) > 0
  /\ ~calls.recomputed
  /\ hist[1].nBounds = 1
  /\ ret = hist[1].bounds

\* C4: a query that recomputes sets the cache stamp to exactly the aggregate clock
\* it read before recomputing (the query advances no clock, so that is the
\* aggregate clock after it too).
C4_StampIsSnapshot ==
  /\ (lastOp.op = "GetBounds" /\ calls.recomputed) =>
       ds[lastOp.d].ComputeTime = GetMTime(ds[lastOp.d])
  /\ (lastOp.op = "GetScalarRange" /\ calls.recomputed) =>
       ds[lastOp.d].ScalarRangeComputeTime = GetMTime(ds[lastOp.d])

\* C5: a clock advance that falls between the staleness test and the stamp of a
\* recomputation leaves no stale value marked valid: a query that finds the cache
\* fresh, whatever ran before it, returns the box of the points as they are.
C5_RaceLeavesNoStaleValue ==
  (lastOp.op = "GetBounds" /\ lastOp.arg = <<"hit">>) =>
    ret = BoundingBox(PointsOf(ds[1]))

\* C6: the scalar range is never stale: whatever scalar-array changes, mask
\* changes and GenerateGhostArray calls came before (those that make the ghost
\* array and those that write into one that exists), every GetScalarRange returns
\* the range of the active scalars as they are, the elements masked by the ghost
\* entries as they are left out.
C6_ScalarRangeNeverStale ==
  lastOp.op = "GetScalarRange" => ret = RecomputedScalarRange(ds[lastOp.d], heap)

\* C7: a recomputation of the scalar range yields the smaller minimum and the
\* larger maximum of the point and the cell range when both scalars exist, the
\* range of the one that exists otherwise, (0, 1) when neither does; and a dataset
\* just constructed holds (0, 1).
C7_CombinationRule ==
  /\ (lastOp.op = "GetScalarRange" /\ calls.recomputed) =>
       LET r == ds[lastOp.d]
           rPoint == GetRange(heap[r.PDScalars].data,
                              IF r.PDGhost # 0 THEN heap[r.PDGhost].data ELSE <<>>,
                              r.PDGhostsToSkip)
           rCell == GetRange(heap[r.CDScalars].data,
                             IF r.CDGhost # 0 THEN heap[r.CDGhost].data ELSE <<>>,
                             r.CDGhostsToSkip)
       IN ret = IF r.PDScalars # 0 /\ r.CDScalars # 0
                THEN <<Min2(rPoint[1], rCell[1]), Max2(rPoint[2], rCell[2])>>
                ELSE IF r.PDScalars # 0 THEN rPoint
                ELSE IF r.CDScalars # 0 THEN rCell
                ELSE <<0, 1>>
  /\ lastOp.op = "New" => \A d \in DS : ds[d].ScalarRange = <<0, 1>>

\* Point scalars of range [0, 10] and cell scalars of range [5, 20] recomputed to
\* [0, 20].
C7_Witness ==
  /\ lastOp = Op("GetScalarRange", 1, <<>>)
  /\ calls.recomputed
  /\ ds[1].PDScalars # 0 /\ heap[ds[1].PDScalars].data = <<0, 10>>
  /\ ds[1].CDScalars # 0 /\ heap[ds[1].CDScalars].data = <<5, 20>>
  /\ ret = <<0, 20>>

\* The entry (1-based) of point or cell (i, j, k) in an array laid out over the
\* extent e with upper bounds hi, i fastest, then j, then k.
FlatEntry(e, hi, i, j, k) ==
  1 + (i - e[1]) + (hi[1] - e[1]) * ((j - e[3]) + (hi[2] - e[3]) * (k - e[5]))

\* The ghost array of kind of the members r, as a sequence of n entries: zeros if
\* there is none.
GhostEntries(r, h, kind, n) ==
  IF GhostOf(r, kind) # 0 THEN h[GhostOf(r, kind)].data ELSE [f \in 1..n |-> 0]

\* A step is a GenerateGhostArray call on dataset 1 that got past the two early
\* returns.
GenerateStep ==
  /\ lastOp'.op = "GenerateGhostArray"
  /\ ds[1].ExtentType = VTK_3D_EXTENT
  /\ ds[1].Extent # lastOp'.arg[1]

\* C8: a GenerateGhostArray call with cellOnly false and a canonical extent Z other
\* than the true extent E ORs DUPLICATEPOINT into the entry of point (i, j, k) of E
\* (inclusive bounds, i fastest, then j, then k) exactly when the point is below
\* Z's lower or above Z's upper bound on some axis, and leaves every other entry
\* as it was.
C8_GhostPoints ==
  [][(GenerateStep /\ ~lastOp'.arg[2]) =>
       LET E == ds[1].Extent
           Z == lastOp'.arg[1]
           old == GhostEntries(ds[1], heap, "POINT", StructuredNumberOfPoints(E))
           new == GhostEntries(ds'[1], heap', "POINT", 0)
       IN /\ Len(new) = Len(old)
          /\ \A i \in E[1]..E[2], j \in E[3]..E[4], k \in E[5]..E[6] :
               LET f == FlatEntry(E, <<E[2] + 1, E[4] + 1, E[6] + 1>>, i, j, k)
                   outside == \/ i < Z[1] \/ i > Z[2]
                              \/ j < Z[3] \/ j > Z[4]
                              \/ k < Z[5] \/ k > Z[6]
               IN new[f] = IF outside THEN BitOr(old[f], DUPLICATEPOINT) ELSE old[f]]_vars

\* E = [0,4,0,4,0,0] and Z = [1,3,1,3,0,0]: the 16 points of the border are marked,
\* the 9 inner ones are not.
C8_Witness ==
  /\ lastOp = Op("GenerateGhostArray", 1, <<(<<1, 3, 1, 3, 0, 0>>), FALSE>>)
  /\ ds[1].Extent = <<0, 4, 0, 4, 0, 0>>
  /\ ds[1].PDGhost # 0
  /\ LET a == heap[ds[1].PDGhost].data
     IN /\ Len(a) = 25
        /\ {f \in 1..25 : BitAnd(a[f], DUPLICATEPOINT) = 0} =
             {7, 8, 9, 12, 13, 14, 17, 18, 19}
        /\ Cardinality({f \in 1..25 : BitAnd(a[f], DUPLICATEPOINT) # 0}) = 16

\* C9: with Z other than E, each axis on which E is flat is widened by one at the
\* upper bound in E and in Z; then DUPLICATECELL is ORed into the entry of cell
\* (i, j, k), lower bound inclusive and upper bound exclusive, i fastest, exactly
\* when the cell is below Z's lower or at or above Z's upper bound on some axis;
\* every other entry is left as it was.
C9_GhostCells ==
  [][GenerateStep =>
       LET E0 == ds[1].Extent
           Z0 == lastOp'.arg[1]
           flat == [axis \in 1..3 |-> E0[2 * axis - 1] = E0[2 * axis]]
           Ehi == [axis \in 1..3 |-> E0[2 * axis] + (IF flat[axis] THEN 1 ELSE 0)]
           Zhi == [axis \in 1..3 |-> Z0[2 * axis] + (IF flat[axis] THEN 1 ELSE 0)]
           old == GhostEntries(ds[1], heap, "CELL", StructuredNumberOfCells(E0))
           new == GhostEntries(ds'[1], heap', "CELL", 0)
       IN /\ Len(new) = Len(old)
          /\ \A i \in E0[1]..(Ehi[1] - 1), j \in E0[3]..(Ehi[2] - 1),
                k \in E0[5]..(Ehi[3] - 1) :
               LET f == FlatEntry(E0, Ehi, i, j, k)
                   outside == \/ i < Z0[1] \/ i >= Zhi[1]
                              \/ j < Z0[3] \/ j >= Zhi[2]
                              \/ k < Z0[5] \/ k >= Zhi[3]
               IN new[f] = IF outside THEN BitOr(old[f], DUPLICATECELL) ELSE old[f]]_vars

\* E = [0,4,0,4,0,0] (4 x 4 cells, flat on the third axis) and Z = [1,3,1,3,0,0]:
\* the 4 inner cells are not marked, the 12 others are.
C9_Witness ==
  /\ lastOp.op = "GenerateGhostArray"
  /\ lastOp.arg[1] = <<1, 3, 1, 3, 0, 0>>
  /\ ret = <<1, 3, 1, 3, 0, 1>>
  /\ ds[1].Extent = <<0, 4, 0, 4, 0, 0>>
  /\ ds[1].CDGhost # 0
  /\ LET a == heap[ds[1].CDGhost].data
     IN /\ Len(a) = 16
        /\ {f \in 1..16 : BitAnd(a[f], DUPLICATECELL) = 0} = {6, 7, 10, 11}

\* The bits of an unsigned char.
Bits == {1, 2, 4, 8, 16, 32, 64, 128}

\* C10: ghost bits are monotone. Over a GenerateGhostArray call, whatever its
\* arguments, an existing point or cell ghost array stays the array it was, and in
\* each of its entries every bit set before is set after and no bit other than
\* DUPLICATEPOINT (DUPLICATECELL) differs.
C10_GhostBitsMonotone ==
  [][lastOp'.op = "GenerateGhostArray" =>
       \A kind \in Kinds :
         GhostOf(ds[1], kind) # 0 =>
           LET old == heap[GhostOf(ds[1], kind)].data
               new == heap'[GhostOf(ds'[1], kind)].data
               dup == IF kind = "POINT" THEN DUPLICATEPOINT ELSE DUPLICATECELL
           IN /\ GhostOf(ds'[1], kind) = GhostOf(ds[1], kind)
              /\ Len(new) = Len(old)
              /\ \A f \in 1..Len(old) :
                   new[f] # old[f] =>
                     \A b \in Bits :
                       /\ BitAnd(old[f], b) # 0 => BitAnd(new[f], b) # 0
                       /\ b # dup => BitAnd(new[f], b) = BitAnd(old[f], b)]_vars

\* A call has marked a point entry that held HIDDENPOINT and a cell entry that held
\* REFINEDCELL: both bits are there beside the new one.
C10_Witness ==
  /\ lastOp.op = "GenerateGhostArray"
  /\ ds[1].PDGhost # 0 /\ ds[1].CDGhost # 0
  /\ \E f \in 1..Len(heap[ds[1].PDGhost].data) :
       heap[ds[1].PDGhost].data[f] = HIDDENPOINT + DUPLICATEPOINT
  /\ \E f \in 1..Len(heap[ds[1].CDGhost].data) :
       heap[ds[1].CDGhost].data[f] = REFINEDCELL + DUPLICATECELL

\* C11: HasAnyGhostPoints returns false on a dataset that holds no marked ghost
\* array, before any GenerateGhostArray call and after any number of calls whose
\* canonical extent is the extent of the dataset.
C11_NoGhostPoints ==
  lastOp.op = "HasAnyGhostPoints" => ret = <<FALSE>>

\* HasAnyGhostPoints on a structured dataset without a point ghost array, after
\* GenerateGhostArray has been called with its extent.
C11_Witness ==
  /\ lastOp.op = "HasAnyGhostPoints"
  /\ ds[1].ExtentType = VTK_3D_EXTENT
  /\ hist[1].generated
  /\ ds[1].PDGhost = 0
  /\ ret = <<FALSE>>

\* C12: GenerateGhostArray on a dataset that is not structured, or with a
\* canonical extent equal to the extent in all six components, does nothing: no
\* ghost array is made, no entry and no clock changes, and the caller's
\* canonical extent is left as it was.
C12_GenerateNoop ==
  [][(/\ lastOp'.op = "GenerateGhostArray"
      /\ \/ ds[1].ExtentType # VTK_3D_EXTENT
         \/ ds[1].Extent = lastOp'.arg[1]) =>
       /\ ds' = ds
       /\ heap' = heap
       /\ GlobalTime' = GlobalTime
       /\ ret' = lastOp'.arg[1]
       /\ ub' = ub]_vars

\* A call with the extent of a structured dataset that holds a cell ghost array
\* and no point ghost array; cellOnly is false.
C12_Witness ==
  /\ lastOp = Op("GenerateGhostArray", 1, <<ds[1].Extent, FALSE>>)
  /\ ds[1].ExtentType = VTK_3D_EXTENT
  /\ ds[1].PDGhost = 0
  /\ ds[1].CDGhost # 0
  /\ ret = ds[1].Extent

\* C13: HasAnyGhostPoints (HasAnyGhostCells) returns true exactly when the point
\* (cell) ghost array is there and some entry of it has the DUPLICATEPOINT
\* (DUPLICATECELL) bit; false without the array and with an array of no tuple;
\* however the scan is cut into chunks and the chunks are given to the workers.
C13_HasAnyGhost ==
  /\ lastOp.op = "HasAnyGhostPoints" =>
       ret = <<ds[1].PDGhost # 0 /\
               \E f \in 1..Len(heap[ds[1].PDGhost].data) :
                 BitAnd(heap[ds[1].PDGhost].data[f], DUPLICATEPOINT) # 0>>
  /\ lastOp.op = "HasAnyGhostCells" =>
       ret = <<ds[1].CDGhost # 0 /\
               \E f \in 1..Len(heap[ds[1].CDGhost].data) :
                 BitAnd(heap[ds[1].CDGhost].data[f], DUPLICATECELL) # 0>>

\* HasAnyGhostPoints has found the bit of the last of three points, the first two
\* being clear.
C13_Witness ==
  /\ lastOp.op = "HasAnyGhostPoints"
  /\ ds[1].PDGhost # 0
  /\ heap[ds[1].PDGhost].data = <<0, 0, DUPLICATEPOINT>>
  /\ ret = <<TRUE>>

\* C14: the result of a reduction does not depend on how the range is cut into
\* chunks, which worker runs which chunk, in which order the chunks are run and
\* the thread-local states merged, nor on workers without a chunk: the bounds and
\* the any-bit answers are those of one worker running the whole range.
C14_PartitionIndependent ==
  /\ (lastOp.op = "GetBounds" /\ calls.recomputed /\ GetNumberOfPoints(ds[1]) > 0) =>
       ret = ForBounds(PointsOf(ds[1]), SerialPlan(GetNumberOfPoints(ds[1])))
  /\ lastOp.op = "HasAnyGhostPoints" =>
       ret = <<IsAnyBitSet(heap, ds[1].PDGhost, DUPLICATEPOINT,
                           SerialPlan(GetNumberOfTuples(heap, ds[1].PDGhost)))>>
  /\ lastOp.op = "HasAnyGhostCells" =>
       ret = <<IsAnyBitSet(heap, ds[1].CDGhost, DUPLICATECELL,
                           SerialPlan(GetNumberOfTuples(heap, ds[1].CDGhost)))>>

\* The bounds of the row of three points have been recomputed (in some way), and
\* the dataset holds a point ghost array with the two end points marked.
C14_Witness ==
  /\ lastOp.op = "GetBounds"
  /\ calls.recomputed
  /\ ds[1].Extent = <<0, 2, 0, 0, 0, 0>>
  /\ ret = <<0, 2, 0, 0, 0, 0>>
  /\ ds[1].PDGhost # 0
  /\ heap[ds[1].PDGhost].data = <<DUPLICATEPOINT, 0, DUPLICATEPOINT>>

\* C15: checkAttributeConsistency reports error exactly when some point array
\* has fewer tuples than the dataset has points or some cell array has fewer
\* tuples than it has cells; an array with more tuples only draws a warning;
\* the dataset, the arrays and the clocks are left as they were.
C15_CheckAttributes ==
  [][lastOp'.op = "CheckAttributes" =>
       LET r == ds[1]
           pointArrays == {r.PDScalars, r.PDGhost} \ {0}
           cellArrays == {r.CDScalars, r.CDGhost} \ {0}
           fewer == \/ \E a \in pointArrays : Len(heap[a].data) < GetNumberOfPoints(r)
                    \/ \E a \in cellArrays : Len(heap[a].data) < GetNumberOfCells(r)
           more == Cardinality({a \in pointArrays : Len(heap[a].data) > GetNumberOfPoints(r)})
                   + Cardinality({a \in cellArrays : Len(heap[a].data) > GetNumberOfCells(r)})
       IN /\ ret'[1] = (IF fewer THEN 1 ELSE 0)
          /\ ret'[2] = ret'[1]
          /\ ~fewer => ret'[3] = more
          /\ ds' = ds /\ heap' = heap /\ GlobalTime' = GlobalTime]_vars

\* A check of a dataset of two points whose point ghost array has three tuples
\* and whose cell ghost array has one: one warning, no error.
C15_Witness ==
  /\ lastOp.op = "CheckAttributes"
  /\ ds[1].ExtentType = VTK_PIECES_EXTENT /\ Len(ds[1].Points) = 2
  /\ ds[1].PDGhost # 0 /\ Len(heap[ds[1].PDGhost].data) = 3
  /\ ds[1].CDGhost # 0 /\ Len(heap[ds[1].CDGhost].data) = 1
  /\ ret = <<0, 0, 1>>

\* C16: GetGhostArray with an attribute type that is neither POINT nor CELL
\* reports an error and returns null, creating no array and changing no cached
\* handle; with POINT or CELL it returns what GetPointGhostArray or
\* GetCellGhostArray returns.
C16_GetGhostArray ==
  [][lastOp'.op = "GetGhostArray" =>
       /\ heap' = heap /\ GlobalTime' = GlobalTime
       /\ lastOp'.arg[1] = "POINT" =>
            /\ ds'[1] = GetPointGhostArray(ds[1])
            /\ ret' = <<GetPointGhostArray(ds[1]).PointGhostArray, FALSE>>
       /\ lastOp'.arg[1] = "CELL" =>
            /\ ds'[1] = GetCellGhostArray(ds[1])
            /\ ret' = <<GetCellGhostArray(ds[1]).CellGhostArray, FALSE>>
       /\ lastOp'.arg[1] \notin {"POINT", "CELL"} =>
            /\ ds' = ds
            /\ ret' = <<0, TRUE>>]_vars

\* GetGhostArray of another attribute type on a dataset that holds a point
\* ghost array and has not cached the handle of the cell data.
C16_Witness ==
  /\ lastOp.op = "GetGhostArray" /\ lastOp.arg[1] = "FIELD"
  /\ ds[1].PDGhost # 0 /\ ds[1].CDGhost = 0
  /\ ds[1].PointGhostArrayCached /\ ~ds[1].CellGhostArrayCached
  /\ ret = <<0, TRUE>>

\* C20: after any operation a cached ghost-array handle is the array the
\* attribute set holds under the ghost-array name (null if it holds none), so the
\* assertions of GetPointGhostArray and GetCellGhostArray hold and GetGhostArray
\* returns the registered array; a change of one attribute set never changes the
\* cached handle of the other.
C20_CacheAgrees ==
  [][LET r == ds'[1]
         single == lastOp'.op \in {"AddGhostArray", "RemoveGhostArray"}
     IN /\ r.PointGhostArrayCached => r.PointGhostArray = r.PDGhost
        /\ r.CellGhostArrayCached => r.CellGhostArray = r.CDGhost
        /\ r.PointGhostArray # 0 => heap'[r.PointGhostArray].live
        /\ r.CellGhostArray # 0 => heap'[r.CellGhostArray].live
        /\ lastOp'.op = "GetGhostArray" /\ lastOp'.arg[1] = "POINT" => ret'[1] = r.PDGhost
        /\ lastOp'.op = "GetGhostArray" /\ lastOp'.arg[1] = "CELL" => ret'[1] = r.CDGhost
        /\ (single /\ lastOp'.arg[1] = "POINT") \/ lastOp'.op = "AllocatePointGhostArray" =>
             /\ r.CellGhostArray = ds[1].CellGhostArray
             /\ r.CellGhostArrayCached = ds[1].CellGhostArrayCached
        /\ (single /\ lastOp'.arg[1] = "CELL") \/ lastOp'.op = "AllocateCellGhostArray" =>
             /\ r.PointGhostArray = ds[1].PointGhostArray
             /\ r.PointGhostArrayCached = ds[1].PointGhostArrayCached]_vars

\* A point ghost array is put in the place of another while the handles of both
\* attribute sets are cached: the point handle follows, the cell handle stays.
C20_Witness ==
  /\ lastOp.op = "AddGhostArray" /\ lastOp.arg[1] = "POINT"
  /\ ds[1].PointGhostArrayCached /\ ds[1].CellGhostArrayCached
  /\ ds[1].PointGhostArray = ds[1].PDGhost /\ ds[1].PDGhost # 0
  /\ ds[1].CellGhostArray = ds[1].CDGhost /\ ds[1].CDGhost # 0
  /\ ds[2].CDGhost # 0

C19_EachPointOnce ==
  (lastOp.op = "GetBounds" /\ calls.recomputed /\ GetNumberOfPoints(ds[lastOp.d]) > 0) =>
    /\ calls.GetPoint = [n \in 1..GetNumberOfPoints(ds[lastOp.d]) + 1 |->
                           IF n <= GetNumberOfPoints(ds[lastOp.d]) THEN 1 ELSE 0]
    /\ ret = BoundingBox(PointsOf(ds[lastOp.d]))
    /\ ds[lastOp.d].Bounds = ret

\* A recomputation over two points inserted one after the other, far apart.
C19_Witness ==
  /\ lastOp = Op("GetBounds", 1, <<>>)
  /\ calls.recomputed
  /\ ds[1].Points = <<<<1, 1, 1>>, <<-1, -1, -1>>>>
  /\ calls.GetPoint = <<1, 1, 0>>
  /\ ret = <<-1, 1, -1, 1, -1, 1>>

\* The handles of the arrays of the attribute sets of r.
Handles(r) == <<r.PDScalars, r.PDGhost, r.CDScalars, r.CDGhost>>

\* C18: ShallowCopy and DeepCopy from a dataset give the destination the bounds,
\* the scalar range and the two cache stamps of the source and change nothing of
\* the source; a shallow copy shares the arrays of the source, a deep copy holds
\* duplicates of them, so that a later write to an array of the source leaves
\* the arrays of a deep copy as they are. A copy from an object that is no dataset
\* leaves bounds, scalar range, stamps and attribute sets of the destination alone.
C18_CopyByValue ==
  [][LET op == lastOp'
         copy == op.op \in {"ShallowCopy", "DeepCopy"}
     IN /\ (copy /\ op.arg[1] # 0) =>
             LET src == ds[op.arg[1]]
                 dst == ds'[op.d]
             IN /\ dst.Bounds = src.Bounds
                /\ dst.ScalarRange = src.ScalarRange
                /\ dst.ComputeTime = src.ComputeTime
                /\ dst.ScalarRangeComputeTime = src.ScalarRangeComputeTime
                /\ ds'[op.arg[1]] = src
                /\ \A a \in Held(src) : heap'[a] = heap[a]
                /\ op.op = "ShallowCopy" => Handles(dst) = Handles(src)
                /\ op.op = "DeepCopy" =>
                     /\ Held(dst) \cap Held(src) = {}
                     /\ \A k \in 1..4 :
                          IF Handles(src)[k] = 0 THEN Handles(dst)[k] = 0
                          ELSE /\ Handles(dst)[k] # 0
                               /\ heap'[Handles(dst)[k]] = heap[Handles(src)[k]]
        /\ (copy /\ op.arg[1] = 0) => (ds' = ds /\ heap' = heap /\ GlobalTime' = GlobalTime)
        /\ (op.op \in {"MarkOtherBit", "SetScalars"} /\ op.d = 2) =>
             /\ \A a \in Held(ds[1]) \ Held(ds[2]) : heap'[a] = heap[a]
             /\ Handles(ds'[1]) = Handles(ds[1])]_vars

\* A deep copy of a source whose bounds and scalar range have been computed and
\* whose ghost array has been written in place: the stamps and the written array
\* arrive in the destination, in an array of its own.
C18_Witness ==
  /\ lastOp.op = "DeepCopy" /\ lastOp.d = 1 /\ lastOp.arg[1] = 2
  /\ ds[2].ComputeTime # 0 /\ ds[2].ScalarRangeComputeTime # 0
  /\ ds[1].ComputeTime = ds[2].ComputeTime
  /\ ds[1].ScalarRangeComputeTime = ds[2].ScalarRangeComputeTime
  /\ ds[1].Bounds = <<0, 1, 0, 0, 0, 0>>
  /\ ds[1].CDGhost # 0 /\ ds[1].CDGhost # ds[2].CDGhost
  /\ heap[ds[1].CDGhost].data = <<BitOr(DUPLICATECELL, REFINEDCELL)>>

\* A GenerateGhostArray step on dataset 1 that is past the two early returns.
GenerateMarks ==
  /\ lastOp'.op = "GenerateGhostArray"
  /\ ds[1].ExtentType = VTK_3D_EXTENT
  /\ ds[1].Extent # lastOp'.arg[1]

C22_NoAccessOutsideArray == ~ub

\* C23: a generate with cellOnly set leaves the point data alone (no point ghost
\* array is made, no entry of one changes, the clock of the point data stays)
\* and makes and marks the cell ghost array as a generate without cellOnly does.
C23_CellOnlyLeavesPoints ==
  [][(GenerateMarks /\ lastOp'.arg[2]) =>
       LET r == ds[1]
           zeroExt == lastOp'.arg[1]
       IN /\ ds'[1].PDGhost = r.PDGhost
          /\ ds'[1].PDScalars = r.PDScalars
          /\ ds'[1].PDMTime = r.PDMTime
          /\ ds'[1].PointGhostArray = r.PointGhostArray
          /\ ds'[1].PointGhostArrayCached = r.PointGhostArrayCached
          /\ r.PDGhost # 0 => heap'[r.PDGhost] = heap[r.PDGhost]
          /\ ds'[1].CDGhost # 0
          /\ (r.CDGhost = 0) = (ds'[1].CDMTime # r.CDMTime)
          /\ \A p \in {GhostPoints(r, heap, GlobalTime, zeroExt)} :
               \A c \in {GhostCells(p.r, p.h, p.t, zeroExt)} :
                 /\ heap'[ds'[1].CDGhost].data = c.h[c.r.CDGhost].data
                 /\ ret' = c.zeroExt]_vars

\* A generate with cellOnly on the row of two points that held no ghost array:
\* the cell ghost array is there and marked, a point ghost array is not.
C23_Witness ==
  /\ lastOp.op = "GenerateGhostArray" /\ lastOp.arg = <<<<1, 1, 0, 0, 0, 0>>, TRUE>>
  /\ ds[1].Extent = <<0, 1, 0, 0, 0, 0>>
  /\ ds[1].PDGhost = 0 /\ ds[1].PDMTime = NewDataSet(0).PDMTime
  /\ ds[1].CDGhost # 0 /\ heap[ds[1].CDGhost].data = <<DUPLICATECELL>>

\* C27: a generate with E # Z on a structured dataset adds one to the upper bound
\* of the canonical extent the caller passed on each axis on which the true
\* extent is flat (lo = hi) and leaves its other components as they were; with
\* no flat axis the array is unchanged.
C27_ZeroExtInflated ==
  [][GenerateMarks =>
       ret' = [n \in 1..6 |->
                 IF n \in {2, 4, 6} /\ ds[1].Extent[n - 1] = ds[1].Extent[n]
                 THEN lastOp'.arg[1][n] + 1 ELSE lastOp'.arg[1][n]]]_vars

\* A generate on the square, flat in z only: the upper z bound of the canonical
\* extent has gone from 0 to 1.
C27_Witness ==
  /\ lastOp.op = "GenerateGhostArray" /\ lastOp.arg[1] = <<0, 0, 0, 0, 0, 0>>
  /\ ds[1].Extent = <<0, 1, 0, 1, 0, 0>>
  /\ ret = <<0, 0, 0, 0, 0, 1>>

\* C24: GetCenter brings the bounds up to date and returns on each axis the
\* midpoint of the bounds GetBounds would return in that state (here its double,
\* min + max); GetLength2 returns the sum over the axes of (max - min)^2 of those
\* bounds when there are points, and 0 when there are none, not what the
\* uninitialized box would give, and then touches neither the bounds nor the stamp.
C24_CenterAndLength2 ==
  [][LET r == ds[1]
         B == BoundingBox(PointsOf(r))
     IN /\ lastOp'.op = "GetCenter" =>
             /\ ret' = <<B[1] + B[2], B[3] + B[4], B[5] + B[6]>>
             /\ ds'[1].Bounds = B
             /\ ~BoundsStale(ds'[1])
        /\ (lastOp'.op = "GetLength2" /\ GetNumberOfPoints(r) > 0) =>
             /\ ret' = <<(B[2] - B[1]) * (B[2] - B[1]) + (B[4] - B[3]) * (B[4] - B[3])
                          + (B[6] - B[5]) * (B[6] - B[5])>>
             /\ ds'[1].Bounds = B
        /\ (lastOp'.op = "GetLength2" /\ GetNumberOfPoints(r) = 0) =>
             /\ ret' = <<0>>
             /\ ds' = ds /\ GlobalTime' = GlobalTime]_vars

\* GetLength2 on a point set that has lost its points and whose bounds are out of
\* date: 0 is returned and the bounds stay out of date.
C24_Witness ==
  /\ lastOp = Op("GetLength2", 1, <<>>)
  /\ ds[1].Points = <<>>
  /\ ds[1].MTime > NewDataSet(0).MTime
  /\ ds[1].Bounds # UninitializeBounds
  /\ BoundsStale(ds[1])
  /\ ret = <<0>>

\* The clocks of the dataset object, of its point data and of its cell data.
Clocks(r) == {r.MTime, r.PDMTime, r.CDMTime}

\* C25: in every state GetMTime is the largest of the clock of the dataset
\* object, the clock of the point data and the clock of the cell data, and no
\* operation makes it smaller.
C25_AggregateClock ==
  [][/\ GetMTime(ds'[1]) \in Clocks(ds'[1])
     /\ \A c \in Clocks(ds'[1]) : c <= GetMTime(ds'[1])
     /\ GetMTime(ds'[1]) >= GetMTime(ds[1])]_vars

\* The point data was written last, after the points and the cell data: its
\* clock is the aggregate clock, and GetBounds has recomputed because of it.
C25_Witness ==
  /\ lastOp = Op("GetBounds", 1, <<>>)
  /\ calls.recomputed
  /\ hist[1].nBounds >= 2
  /\ ds[1].PDMTime > ds[1].MTime /\ ds[1].MTime > ds[1].CDMTime
  /\ ds[1].MTime > NewDataSet(0).MTime
  /\ GetMTime(ds[1]) = ds[1].PDMTime

\* The queries of the caches.
Queries == {"GetBounds", "GetCenter", "GetLength2", "GetScalarRange",
            "HasAnyGhostPoints", "HasAnyGhostCells", "GetGhostArray"}

\* A step of a query: it advances none of the three clocks, leaves a cache that
\* was up to date as it was (so between two mutations each cache is recomputed
\* at most once), and leaves the stamp of the cache it is a query of at or after
\* the aggregate clock; stampedByLength2 tells of which datasets GetLength2 is
\* held to leave the stamp of the bounds so.
QueryStep(stampedByLength2(_)) ==
  lastOp'.op \in Queries =>
    LET r == ds[1]
        q == ds'[1]
    IN /\ ClocksOf(q) = ClocksOf(r)
       /\ ~BoundsStale(r) => (q.ComputeTime = r.ComputeTime /\ q.Bounds = r.Bounds)
       /\ ~ScalarRangeStale(r) =>
            (q.ScalarRangeComputeTime = r.ScalarRangeComputeTime
             /\ q.ScalarRange = r.ScalarRange)
       /\ lastOp'.op \in {"GetBounds", "GetCenter"} => q.ComputeTime >= GetMTime(q)
       /\ (lastOp'.op = "GetLength2" /\ stampedByLength2(r)) => q.ComputeTime >= GetMTime(q)
       /\ lastOp'.op = "GetScalarRange" => q.ScalarRangeComputeTime >= GetMTime(q)

\* C26 as stated: no query advances a clock, between two mutations the bounds
\* and the scalar range are each recomputed at most once, and after every query,
\* GetLength2 on any dataset among them, the stamp of its cache is at or after
\* the aggregate clock.
C26_StampAfterEveryQuery == [][QueryStep(LAMBDA r : TRUE)]_vars

\* C26, amended: as stated, but GetLength2 leaves the stamp of the bounds at or
\* after the aggregate clock only on a dataset that has points; on one without
\* points it returns 0 and leaves bounds and stamp as they are.
C26_QueriesKeepCaches == [][QueryStep(LAMBDA r : GetNumberOfPoints(r) > 0)]_vars

\* GetScalarRange recomputes after the bounds were brought up to date: the bounds
\* and their stamp stay, both stamps are at or after the aggregate clock.
C26_Witness ==
  /\ lastOp = Op("GetScalarRange", 1, <<>>)
  /\ calls.recomputed
  /\ Len(ds[1].Points) > 0
  /\ ds[1].PDScalars # 0
  /\ ds[1].ComputeTime # 0 /\ ~BoundsStale(ds[1])
  /\ ds[1].ScalarRangeComputeTime > ds[1].ComputeTime
  /\ ~ScalarRangeStale(ds[1])

\* C28: AllocatePointGhostArray (AllocateCellGhostArray) on a dataset without a
\* point (cell) ghost array attaches a new array of one tuple for each point
\* (cell), each 0, under the ghost-array name and returns it; on a dataset that
\* has one it returns that array and leaves its contents, its size and the clock
\* of the attribute set as they were; either way GetPointGhostArray
\* (GetCellGhostArray) then returns the same array.
C28_AllocateIdempotent ==
  [][LET r == ds[1]
         q == ds'[1]
     IN /\ lastOp'.op = "AllocatePointGhostArray" =>
             /\ IF r.PDGhost = 0
                THEN /\ q.PDGhost # 0 /\ ~heap[q.PDGhost].live
                     /\ heap'[q.PDGhost].data = [i \in 1..GetNumberOfPoints(r) |-> 0]
                     /\ q.PDMTime > r.PDMTime
                ELSE /\ q.PDGhost = r.PDGhost
                     /\ heap' = heap
                     /\ ClocksOf(q) = ClocksOf(r) /\ GlobalTime' = GlobalTime
             /\ ret' = <<q.PDGhost>>
             /\ GetPointGhostArray(q).PointGhostArray = ret'[1]
             /\ q.CDGhost = r.CDGhost
        /\ lastOp'.op = "AllocateCellGhostArray" =>
             /\ IF r.CDGhost = 0
                THEN /\ q.CDGhost # 0 /\ ~heap[q.CDGhost].live
                     /\ heap'[q.CDGhost].data = [i \in 1..GetNumberOfCells(r) |-> 0]
                     /\ q.CDMTime > r.CDMTime
                ELSE /\ q.CDGhost = r.CDGhost
                     /\ heap' = heap
                     /\ ClocksOf(q) = ClocksOf(r) /\ GlobalTime' = GlobalTime
             /\ ret' = <<q.CDGhost>>
             /\ GetCellGhostArray(q).CellGhostArray = ret'[1]
             /\ q.PDGhost = r.PDGhost]_vars

\* AllocatePointGhostArray on the row of two points whose point ghost array holds
\* a mark already: the array is returned, the mark is still there.
C28_Witness ==
  /\ lastOp.op = "AllocatePointGhostArray"
  /\ ds[1].ExtentType = VTK_3D_EXTENT
  /\ ds[1].PDGhost # 0 /\ ret = <<ds[1].PDGhost>>
  /\ heap[ds[1].PDGhost].data = <<DUPLICATEPOINT, 0>>
  /\ ds[1].PointGhostArrayCached /\ ds[1].PointGhostArray = ds[1].PDGhost

====
